---------------------------- MODULE Spec2Model ----------------------------
(***************************************************************************)
(* Reference-element topology (lf::base::RefEl) and the hierarchic scalar  *)
(* shape-function sets (lf::fe::FeHierarchicPoint / Segment / Tria / Quad) *)
(* of src/lib/lf/base/ref_el.h.                                            *)
(*                                                                         *)
(* A failed LF_ASSERT_MSG_CONSTEXPR / LF_ASSERT_MSG / LF_VERIFY_MSG is a   *)
(* call that does not return a value: the operators below return a record  *)
(* [ok, val, err] with ok = FALSE and the message of the first failing     *)
(* assertion.  Real numbers are exact rationals <<num, den>>.              *)
(***************************************************************************)
EXTENDS Integers, Sequences, FiniteSets, TLC

VARIABLES
  call,    \* the topology query in progress (operation and arguments)
  ret,     \* what that query returned, or the assertion that failed
  fe,      \* the shape-function set under use: type, degree_, rel_orient_, eval_nodes_
  store,   \* the caller's array of orientations that the span rel_orient_ views
  fcall,   \* the member function of the shape-function set in progress
  out,     \* what that member function returned, or the assertion that failed
  threads, \* per thread: the member function it runs on the shared set, and how far
  space,   \* the FeSpaceHierarchic: its mesh, degree_ and ref_el_
  scall,   \* the member function of the space in progress and what it returned
  poly     \* the call of LegendrePoly / JacobiPoly in progress: arguments and locals

topoVars == <<call, ret>>
spaceVars == <<space, scall>>
polyVars == <<poly>>
feVars == <<fe, store, fcall, out, threads, spaceVars, polyVars>>
vars == <<call, ret, fe, store, fcall, out, threads, space, scall, poly>>

(***************************************************************************)
(* Bounds of the argument sets of the topology queries.                    *)
(***************************************************************************)
MaxCodimArg == 3
MaxIdxArg == 5

(***************************************************************************)
(* Bounds of the shape-function sets: largest polynomial degree, the       *)
(* denominator of the grid of sample points, and the number of columns of  *)
(* a coordinate matrix.                                                    *)
(***************************************************************************)
MaxDegree == 3
GridDen == 4
MaxCols == 2
MaxSolveDegree == 3
MaxLayoutDegree == 4

CodimArgs == -1 .. MaxCodimArg
IdxArgs == -1 .. MaxIdxArg

(***************************************************************************)
(* enum class RefElType : char                                             *)
(***************************************************************************)
kPoint == 0
kSegment == 1
kTria == 2
kQuad == 3

RefElTypes == {kPoint, kSegment, kTria, kQuad}

Ok(v) == [ok |-> TRUE, val |-> v, err |-> ""]
Fail(msg) == [ok |-> FALSE, val |-> -1, err |-> msg]

NotImplemented == "not implemented for this RefElType"
NeverReached == "This code should never be reached."
OutOfBoundsRead == "read past the end of the lookup table"

(***************************************************************************)
(* RefEl::sub_sub_entity_index_tria_ / _quad_ : edge -> (vertex, vertex)   *)
(* The tables are 0-based in the source; rows and columns are shifted by 1 *)
(* here because TLA+ sequences are 1-based.                                *)
(***************************************************************************)
sub_sub_entity_index_tria_ == << <<0, 1>>, <<1, 2>>, <<2, 3>> >>
sub_sub_entity_index_quad_ == << <<0, 1>>, <<1, 2>>, <<2, 3>>, <<3, 0>> >>

\* std::array::operator[] of a two-level table: a read outside the table is
\* undefined behaviour and is reported as such to the calling action.
TableRead(table, i, j) ==
  IF i + 1 \in DOMAIN table /\ j + 1 \in DOMAIN table[i + 1]
    THEN Ok(table[i + 1][j + 1])
    ELSE Fail(OutOfBoundsRead)

DimensionImpl(type) ==
  CASE type = kPoint -> 0
    [] type = kSegment -> 1
    [] type = kTria -> 2
    [] type = kQuad -> 2

Dimension(type) == DimensionImpl(type)

NumNodes(type) ==
  CASE type = kPoint -> 1
    [] type = kSegment -> 2
    [] type = kTria -> 3
    [] type = kQuad -> 4

\* Mutant of NumSubEntities: the early return for sub_codim = 0 is missing.
NumSubEntities_NoCodim0(type, sub_codim) ==
  IF ~(sub_codim >= 0) THEN Fail("sub_codim is negative")
  ELSE IF ~(sub_codim <= Dimension(type)) THEN Fail("sub_codim > Dimension()")
  ELSE CASE type = kSegment -> Ok(2)
         [] type = kTria -> Ok(3)
         [] type = kQuad -> Ok(4)
         [] OTHER -> Fail(NotImplemented)

NumSubEntities(type, sub_codim) ==
  IF ~(sub_codim >= 0) THEN Fail("sub_codim is negative")
  ELSE IF ~(sub_codim <= Dimension(type)) THEN Fail("sub_codim > Dimension()")
  ELSE IF sub_codim = 0 THEN Ok(1)
  ELSE CASE type = kSegment -> Ok(2)
         [] type = kTria -> Ok(3)
         [] type = kQuad -> Ok(4)
         [] OTHER -> Fail(NotImplemented)

\* Mutant of SubIndexInRange: the bound check of SubType written with <=.
SubIndexInRange_Le(sub_index, n) == sub_index <= n

\* The condition of the assertion "sub_index >= NumSubEntities" of SubType.
SubIndexInRange(sub_index, n) == sub_index < n

\* Mutant of SubTypeOfCodim: codim = Dimension() answered with the element itself.
SubTypeOfCodim_Self(type, sub_codim) ==
  IF sub_codim = 0 THEN Ok(type)
  ELSE IF sub_codim = Dimension(type) THEN Ok(type)
  ELSE IF Dimension(type) - sub_codim = 1 THEN Ok(kSegment)
  ELSE Fail(NeverReached)

\* The three returns of SubType and its final LF_VERIFY_MSG.
SubTypeOfCodim(type, sub_codim) ==
  IF sub_codim = 0 THEN Ok(type)
  ELSE IF sub_codim = Dimension(type) THEN Ok(kPoint)
  ELSE IF Dimension(type) - sub_codim = 1 THEN Ok(kSegment)
  ELSE Fail(NeverReached)

SubType(type, sub_codim, sub_index) ==
  IF ~(sub_codim >= 0) THEN Fail("sub_codim is negative")
  ELSE IF ~(sub_codim <= Dimension(type)) THEN Fail("sub_codim > Dimension()")
  ELSE IF ~(sub_index >= 0) THEN Fail("sub_index is negative")
  ELSE LET n == NumSubEntities(type, sub_codim) IN
    IF ~n.ok THEN n
    ELSE IF ~SubIndexInRange(sub_index, n.val) THEN Fail("sub_index >= NumSubEntities")
    ELSE SubTypeOfCodim(type, sub_codim)

\* Mutant of SubSubReturn: sub_codim = 0 answered with sub_index.
SubSubReturn_SubIndex(type, sub_codim, sub_index, sub_sub_index) ==
  IF type = kPoint THEN Ok(0)
  ELSE IF sub_codim = 0 THEN Ok(sub_index)
  ELSE IF sub_codim = Dimension(type) THEN Ok(sub_index)
  ELSE CASE type = kTria -> TableRead(sub_sub_entity_index_tria_, sub_index, sub_sub_index)
         [] type = kQuad -> TableRead(sub_sub_entity_index_quad_, sub_index, sub_sub_index)
         [] OTHER -> Fail(NeverReached)

\* The part of SubSubEntity2SubEntity after its assertions.
SubSubReturn(type, sub_codim, sub_index, sub_sub_index) ==
  IF type = kPoint THEN Ok(0)
  ELSE IF sub_codim = 0 THEN Ok(sub_sub_index)
  ELSE IF sub_codim = Dimension(type) THEN Ok(sub_index)
  ELSE CASE type = kTria -> TableRead(sub_sub_entity_index_tria_, sub_index, sub_sub_index)
         [] type = kQuad -> TableRead(sub_sub_entity_index_quad_, sub_index, sub_sub_index)
         [] OTHER -> Fail(NeverReached)

\* TRUE iff SubSubReturn takes its last branch, the one that reads a table.
ConsultsTable(type, sub_codim) ==
  /\ type # kPoint
  /\ sub_codim # 0
  /\ sub_codim # Dimension(type)

SubSubEntity2SubEntity(type, sub_codim, sub_index, sub_sub_codim, sub_sub_index) ==
  IF ~(sub_codim >= 0) THEN Fail("sub_codim negative")
  ELSE IF ~(sub_codim <= Dimension(type)) THEN Fail("sub_codim > Dimension")
  ELSE IF ~(sub_index >= 0) THEN Fail("sub_index negative")
  ELSE LET n == NumSubEntities(type, sub_codim) IN
    IF ~n.ok THEN n
    ELSE IF ~(sub_index <= n.val) THEN Fail("sub_index >= NumSubEntities")
    ELSE IF ~(sub_sub_codim >= 0) THEN Fail("sub_sub_codim negative.")
    ELSE IF ~(sub_sub_codim <= Dimension(type) - sub_codim)
      THEN Fail("subSubCodim out of bounds.")
    ELSE IF ~(sub_sub_index >= 0) THEN Fail("sub_sub_index negative.")
    ELSE LET st == SubType(type, sub_codim, sub_index) IN
      IF ~st.ok THEN st
      ELSE LET m == NumSubEntities(st.val, sub_sub_codim) IN
        IF ~m.ok THEN m
        ELSE IF ~(sub_sub_index < m.val) THEN Fail("sub_sub_index out of bounds.")
        ELSE SubSubReturn(type, sub_codim, sub_index, sub_sub_index)

(***************************************************************************)
(* What a caller may observe of a call: the value the code computes, or,   *)
(* after a read outside a lookup table, any value or a crash.              *)
(***************************************************************************)
Outcomes(r) ==
  IF r.err = OutOfBoundsRead
    THEN {Ok(v) : v \in IdxArgs} \cup {r}
    ELSE {r}

NoCall == [op |-> "none", type |-> kPoint, sub_codim |-> 0, sub_index |-> 0,
           sub_sub_codim |-> 0, sub_sub_index |-> 0]

(***************************************************************************)
(* The state of the shape-function set while none exists, and of its       *)
(* member functions while none is in progress.                             *)
(***************************************************************************)
NoFe == [live |-> FALSE, type |-> kPoint, degree_ |-> 0, rel_orient_ |-> 0,
         eval_nodes_ |-> << >>]
NoStore == [alive |-> FALSE, data |-> << >>, passed |-> << >>, writes |-> 0]
NoCoords == [nrows |-> 0, pts |-> << >>]
NoFCall == [op |-> "none", codim |-> 0, subidx |-> 0, refcoords |-> NoCoords, k |-> 0]
NoOut == [ok |-> TRUE, val |-> 0, mat |-> << >>,
          dofs |-> [regular |-> TRUE, x |-> << >>], err |-> ""]

\* The state while no finite element space exists and no call on it runs.
NoMesh == [cells |-> << >>, edges |-> << >>, nodes |-> 0]
NoEntity == [codim |-> 0, index |-> 0]
NoLayout == [null |-> TRUE, type |-> kPoint, degree_ |-> 0, rel_orient_ |-> << >>]
NoSpace == [live |-> FALSE, mesh |-> NoMesh, degree_ |-> 0, ref_el_ |-> << >>,
            dofh_p_ |-> [null |-> TRUE, rsf_layout |-> << >>]]
NoSCall == [op |-> "none", mesh |-> NoMesh, entity |-> NoEntity, layout |-> NoLayout,
            val |-> 0, err |-> ""]

\* The threads that share one shape-function set.
Threads == {"t1", "t2"}

\* The members a member function reads: the object and the array its span views.
NoMembers == [fe |-> NoFe, data |-> << >>]
NoThread == [pc |-> "idle", op |-> "none", refcoords |-> NoCoords, nodevals |-> << >>,
             local |-> NoMembers, result |-> NoOut]

\* No call of LegendrePoly / JacobiPoly is in progress.
NoPoly == [fn |-> "none", pc |-> "idle", n |-> 0, alpha |-> 0, x0 |-> <<0, 1>>,
           x |-> <<0, 1>>, j |-> 0, vjm2 |-> <<0, 1>>, vjm1 |-> <<0, 1>>,
           vj |-> <<0, 1>>, steps |-> 0, divisors |-> {}, val |-> <<0, 1>>]

FeIdle ==
  /\ fe = NoFe
  /\ store = NoStore
  /\ fcall = NoFCall
  /\ out = NoOut
  /\ threads = [t \in Threads |-> NoThread]
  /\ space = NoSpace
  /\ scall = NoSCall
  /\ poly = NoPoly

TopoInit ==
  /\ call = NoCall
  /\ ret = Ok(0)
  /\ FeIdle

CallNumSubEntities ==
  \E type \in RefElTypes, c \in CodimArgs :
    /\ call = NoCall
    /\ call' = [NoCall EXCEPT !.op = "NumSubEntities", !.type = type, !.sub_codim = c]
    /\ ret' = NumSubEntities(type, c)
    /\ UNCHANGED feVars

CallSubType ==
  \E type \in RefElTypes, c \in CodimArgs, i \in IdxArgs :
    /\ call = NoCall
    /\ call' = [NoCall EXCEPT !.op = "SubType", !.type = type, !.sub_codim = c,
                              !.sub_index = i]
    /\ ret' = SubType(type, c, i)
    /\ UNCHANGED feVars

CallSubSubEntity2SubEntity ==
  \E type \in RefElTypes, c \in CodimArgs, i \in IdxArgs,
     cc \in CodimArgs, ii \in IdxArgs :
    /\ call = NoCall
    /\ call' = [op |-> "SubSubEntity2SubEntity", type |-> type, sub_codim |-> c,
                sub_index |-> i, sub_sub_codim |-> cc, sub_sub_index |-> ii]
    /\ ret' \in Outcomes(SubSubEntity2SubEntity(type, c, i, cc, ii))
    /\ UNCHANGED feVars

\* The caller has consumed the result (or handled the failure) of the call.
TopoReturn ==
  /\ call # NoCall
  /\ call' = NoCall
  /\ ret' = Ok(0)
  /\ UNCHANGED feVars

TopoNext ==
  \/ CallNumSubEntities
  \/ CallSubType
  \/ CallSubSubEntity2SubEntity
  \/ TopoReturn

SpecTopo == TopoInit /\ [][TopoNext]_vars

(***************************************************************************)
(* Exact arithmetic for the double / SCALAR values of the shape functions. *)
(* A number is a reduced fraction <<num, den>> with den > 0.               *)
(***************************************************************************)
RECURSIVE Gcd(_, _)
Gcd(a, b) == IF b = 0 THEN a ELSE Gcd(b, a % b)

Abs(a) == IF a < 0 THEN -a ELSE a

\* What a double holds that is no number of the computation: the content of
\* an unwritten matrix entry, or the result of a division by zero.
Indeterminate == <<0, 0>>

Frac(n, d) ==
  IF d = 0 THEN Indeterminate
  ELSE LET g == Gcd(Abs(n), Abs(d))
           s == IF d < 0 THEN -1 ELSE 1
       IN <<(s * n) \div g, (s * d) \div g>>

R(n) == <<n, 1>>
RAdd(a, b) == Frac(a[1] * b[2] + b[1] * a[2], a[2] * b[2])
RSub(a, b) == Frac(a[1] * b[2] - b[1] * a[2], a[2] * b[2])
RMul(a, b) == Frac(a[1] * b[1], a[2] * b[2])
RDiv(a, b) == Frac(a[1] * b[2], a[2] * b[1])
RNeg(a) == <<-a[1], a[2]>>
RIsZero(a) == a[1] = 0 /\ a[2] # 0

RECURSIVE RPow(_, _)
RPow(a, k) == IF k = 0 THEN R(1) ELSE RMul(a, RPow(a, k - 1))

(***************************************************************************)
(* LegendrePoly<SCALAR>                                                    *)
(***************************************************************************)
\* Mutant of LegendreStep: the quotient by j + 1 is left out.
LegendreStep_Unweighted(j, x, Ljm1, Lj) ==
  RSub(RMul(RMul(R(2 * j + 1), x), Lj), RMul(R(j), Ljm1))

\* One step of the three-term recurrence: ((2j+1) x Lj - j Ljm1) / (j+1).
LegendreStep(j, x, Ljm1, Lj) ==
  RDiv(RSub(RMul(RMul(R(2 * j + 1), x), Lj), RMul(R(j), Ljm1)), R(j + 1))

\* for (unsigned j = 1; j < n; ++j) of LegendrePoly::eval
RECURSIVE LegendreEvalLoop(_, _, _, _, _)
LegendreEvalLoop(j, n, x, Ljm1, Lj) ==
  IF j < n
    THEN LegendreEvalLoop(j + 1, n, x, Lj, LegendreStep(j, x, Ljm1, Lj))
    ELSE Lj

LegendreEval(n, x0) ==
  LET x == RSub(RMul(R(2), x0), R(1))
      Ljm1 == R(1)
      Lj == x
  IN IF n = 0 THEN Ljm1
     ELSE IF n = 1 THEN Lj
     ELSE LegendreEvalLoop(1, n, x, Ljm1, Lj)

\* for (unsigned j = 2; j < n; ++j) of LegendrePoly::integral; returns <<Ljm2, Lj>>
RECURSIVE LegendreIntegralLoop(_, _, _, _, _, _)
LegendreIntegralLoop(j, n, x, Ljm2, Ljm1, Lj) ==
  IF j < n
    THEN LegendreIntegralLoop(j + 1, n, x, Ljm1, Lj, LegendreStep(j, x, Ljm1, Lj))
    ELSE <<Ljm2, Lj>>

\* Mutant of LegendreIntegral: the two Legendre polynomials are added.
LegendreIntegral_Sum(n, x0) ==
  IF n = 0 THEN R(-1)
  ELSE IF n = 1 THEN x0
  ELSE LET x == RSub(RMul(R(2), x0), R(1))
           Ljm2 == R(1)
           Ljm1 == x
           Lj == RDiv(RSub(RMul(R(3), RMul(x, x)), R(1)), R(2))
           fin == LegendreIntegralLoop(2, n, x, Ljm2, Ljm1, Lj)
       IN RDiv(RAdd(fin[2], fin[1]), R(4 * n - 2))

LegendreIntegral(n, x0) ==
  IF n = 0 THEN R(-1)
  ELSE IF n = 1 THEN x0
  ELSE LET x == RSub(RMul(R(2), x0), R(1))
           Ljm2 == R(1)
           Ljm1 == x
           Lj == RDiv(RSub(RMul(R(3), RMul(x, x)), R(1)), R(2))
           fin == LegendreIntegralLoop(2, n, x, Ljm2, Ljm1, Lj)
       IN RDiv(RSub(fin[2], fin[1]), R(4 * n - 2))

(***************************************************************************)
(* JacobiPoly<SCALAR>; alpha is an integer at every call site (2i + 4).    *)
(***************************************************************************)
\* Mutant of JacobiDivisor: the last factor is 2 (j+1) + alpha - 4.
JacobiDivisor_Shifted(j, alpha) ==
  2 * (j + 1) * ((j + 1) + alpha) * (2 * (j + 1) + alpha - 4)

\* ajp1 = 2 (j+1) ((j+1) + alpha) (2 (j+1) + alpha - 2)
JacobiDivisor(j, alpha) ==
  2 * (j + 1) * ((j + 1) + alpha) * (2 * (j + 1) + alpha - 2)

\* Pjp1 = (bjp1 (cjp1 (2x - 1) + alpha^2) Pj - djp1 Pjm1) / ajp1
JacobiStep(j, alpha, x, Pjm1, Pj) ==
  LET ajp1 == JacobiDivisor(j, alpha)
      bjp1 == 2 * (j + 1) + alpha - 1
      cjp1 == (2 * (j + 1) + alpha) * (2 * (j + 1) + alpha - 2)
      djp1 == 2 * ((j + 1) + alpha - 1) * ((j + 1) - 1) * (2 * (j + 1) + alpha)
      t == RAdd(RMul(R(cjp1), RSub(RMul(R(2), x), R(1))), R(alpha * alpha))
  IN RDiv(RSub(RMul(RMul(R(bjp1), t), Pj), RMul(R(djp1), Pjm1)), R(ajp1))

\* for (unsigned j = 1; j < n; ++j) of JacobiPoly::eval
RECURSIVE JacobiEvalLoop(_, _, _, _, _, _)
JacobiEvalLoop(j, n, alpha, x, Pjm1, Pj) ==
  IF j < n
    THEN JacobiEvalLoop(j + 1, n, alpha, x, Pj, JacobiStep(j, alpha, x, Pjm1, Pj))
    ELSE Pj

JacobiEval(n, alpha, x) ==
  LET Pjm1 == R(1)
      Pj == RSub(RMul(R(2 + alpha), x), R(1))
  IN IF n = 0 THEN Pjm1
     ELSE IF n = 1 THEN Pj
     ELSE JacobiEvalLoop(1, n, alpha, x, Pjm1, Pj)

\* for (unsigned j = 2; j < n; ++j) of JacobiPoly::integral; returns <<Pjm2, Pjm1, Pj>>
RECURSIVE JacobiIntegralLoop(_, _, _, _, _, _, _)
JacobiIntegralLoop(j, n, alpha, x, Pjm2, Pjm1, Pj) ==
  IF j < n
    THEN JacobiIntegralLoop(j + 1, n, alpha, x, Pjm1, Pj,
                            JacobiStep(j, alpha, x, Pjm1, Pj))
    ELSE <<Pjm2, Pjm1, Pj>>

\* Mutant of JacobiIntegral: the term of the polynomial of degree n - 2 is
\* missing from the returned sum.
JacobiIntegral_NoLowerTerm(n, alpha, x) ==
  IF n = 0 THEN R(-1)
  ELSE IF n = 1 THEN x
  ELSE LET Pjm2 == R(1)
           Pjm1 == RSub(RMul(R(2 + alpha), x), R(1))
           Pj == JacobiStep(1, alpha, x, Pjm2, Pjm1)
           fin == JacobiIntegralLoop(2, n, alpha, x, Pjm2, Pjm1, Pj)
           anL == Frac(n + alpha, (2 * n + alpha - 1) * (2 * n + alpha))
           bnL == Frac(alpha, (2 * n + alpha - 2) * (2 * n + alpha))
       IN RAdd(RMul(anL, fin[3]), RMul(bnL, fin[2]))

JacobiIntegral(n, alpha, x) ==
  IF n = 0 THEN R(-1)
  ELSE IF n = 1 THEN x
  ELSE LET Pjm2 == R(1)
           Pjm1 == RSub(RMul(R(2 + alpha), x), R(1))
           Pj == JacobiStep(1, alpha, x, Pjm2, Pjm1)
           fin == JacobiIntegralLoop(2, n, alpha, x, Pjm2, Pjm1, Pj)
           anL == Frac(n + alpha, (2 * n + alpha - 1) * (2 * n + alpha))
           bnL == Frac(alpha, (2 * n + alpha - 2) * (2 * n + alpha))
           cnL == Frac(n - 1, (2 * n + alpha - 2) * (2 * n + alpha - 1))
       IN RSub(RAdd(RMul(anL, fin[3]), RMul(bnL, fin[2])), RMul(cnL, fin[1]))

(***************************************************************************)
(* Eigen::Matrix<SCALAR, Dynamic, Dynamic> result(nrows, ncols): the rows  *)
(* are 0-based in the source and stored at index row + 1 here.  log keeps  *)
(* the rows in the order in which they were assigned; oob records an       *)
(* assignment to a row the matrix does not have.                           *)
(***************************************************************************)
\* The passes of the nested loops i < degree_ - 1, j < degree_ - 1 that are
\* followed: with degree_ = 0 the unsigned bound is 2^32 - 1, and by then the
\* function has assigned outside its matrix.
ModePasses(degree_) == IF degree_ = 0 THEN 0 ELSE degree_ - 1

NewMatrix(nrows, ncols) ==
  [rows |-> [r \in 1 .. nrows |-> [c \in 1 .. ncols |-> Indeterminate]],
   log |-> << >>,
   oob |-> FALSE]

\* result.row(r) = val
WriteRow(mat, r, val) ==
  IF mat.oob THEN mat
  ELSE IF r + 1 \in DOMAIN mat.rows
    THEN [mat EXCEPT !.rows[r + 1] = val, !.log = Append(@, r)]
    ELSE [mat EXCEPT !.oob = TRUE, !.log = Append(@, r)]

RECURSIVE ApplyWrites(_, _)
ApplyWrites(mat, writes) ==
  IF writes = << >> THEN mat
  ELSE ApplyWrites(WriteRow(mat, Head(writes).row, Head(writes).val), Tail(writes))

\* result.row(r) read as a value
Row(mat, r) ==
  IF r + 1 \in DOMAIN mat.rows
    THEN mat.rows[r + 1]
    ELSE [c \in 1 .. 0 |-> Indeterminate]

\* a.array() * b.array()
RowMul(a, b) == [c \in DOMAIN a |-> RMul(a[c], b[c])]

(***************************************************************************)
(* lf::mesh::Orientation                                                   *)
(***************************************************************************)
positive == "positive"
negative == "negative"
Orientations == {positive, negative}

(***************************************************************************)
(* FeHierarchicPoint                                                       *)
(***************************************************************************)
PointNumRefShapeFunctions(codim, subidx) ==
  IF ~(codim = 0) THEN Fail("Codim out of bounds")
  ELSE IF ~(subidx = 0) THEN Fail("subidx out of bounds.")
  ELSE Ok(1)

PointEval(nrows, ncols) ==
  IF ~(nrows = 0) THEN [ok |-> FALSE, mat |-> NewMatrix(0, 0),
                        err |-> "refcoords has too many rows."]
  ELSE [ok |-> TRUE,
        mat |-> [rows |-> [r \in 1 .. 1 |-> [c \in 1 .. ncols |-> R(1)]],
                 log |-> <<0>>, oob |-> FALSE],
        err |-> ""]

\* Mutant of PointGradients: an empty matrix is returned.
PointGradients_Empty(ncols) ==
  [ok |-> TRUE, mat |-> NewMatrix(0, 0), err |-> ""]

PointGradients(ncols) ==
  [ok |-> FALSE, mat |-> NewMatrix(0, 0),
   err |-> "gradients not defined in points of mesh."]

(***************************************************************************)
(* FeHierarchicSegment                                                     *)
(***************************************************************************)
SegmentNumRefShapeFunctions(degree_) == degree_ + 1

SegmentNumRefShapeFunctionsCodim(degree_, codim) ==
  IF codim = 0 THEN Ok(degree_ - 1) ELSE Ok(1)

\* Mutant of SegmentEval: the interior modes are stored in descending degree.
SegmentEval_Descending(degree_, xs) ==
  LET cols == DOMAIN xs
      vertices == << [row |-> 0, val |-> [c \in cols |-> RSub(R(1), xs[c])]],
                     [row |-> 1, val |-> [c \in cols |-> xs[c]]] >>
      interior == [k \in 1 .. degree_ - 1 |->
                     LET i == k - 1 IN
                     [row |-> i + 2,
                      val |-> [c \in cols |-> LegendreIntegral(degree_ - i, xs[c])]]]
  IN ApplyWrites(NewMatrix(SegmentNumRefShapeFunctions(degree_), Len(xs)),
                 vertices \o interior)

\* xs: the single row of refcoords
SegmentEval(degree_, xs) ==
  LET cols == DOMAIN xs
      vertices == << [row |-> 0, val |-> [c \in cols |-> RSub(R(1), xs[c])]],
                     [row |-> 1, val |-> [c \in cols |-> xs[c]]] >>
      interior == [k \in 1 .. degree_ - 1 |->
                     LET i == k - 1 IN
                     [row |-> i + 2,
                      val |-> [c \in cols |-> LegendreIntegral(i + 2, xs[c])]]]
  IN ApplyWrites(NewMatrix(SegmentNumRefShapeFunctions(degree_), Len(xs)),
                 vertices \o interior)

SegmentGradients(degree_, xs) ==
  LET cols == DOMAIN xs
      vertices == << [row |-> 0, val |-> [c \in cols |-> R(-1)]],
                     [row |-> 1, val |-> [c \in cols |-> R(1)]] >>
      interior == [k \in 1 .. degree_ - 1 |->
                     LET i == k - 1 IN
                     [row |-> i + 2,
                      val |-> [c \in cols |-> LegendreEval(i + 1, xs[c])]]]
  IN ApplyWrites(NewMatrix(SegmentNumRefShapeFunctions(degree_), Len(xs)),
                 vertices \o interior)

(***************************************************************************)
(* FeHierarchicTria                                                        *)
(***************************************************************************)
TriaNumRefShapeFunctions(degree_) == ((degree_ + 1) * (degree_ + 2)) \div 2

\* Mutant of TriaNumRefShapeFunctionsCodim: the division by 2 is missing.
TriaNumRefShapeFunctionsCodim_NoHalf(degree_, codim) ==
  CASE codim = 0 -> IF degree_ <= 2 THEN Ok(0)
                    ELSE Ok((degree_ - 2) * (degree_ - 1))
    [] codim = 1 -> Ok(degree_ - 1)
    [] codim = 2 -> Ok(1)
    [] OTHER -> Fail("Illegal codim")

TriaNumRefShapeFunctionsCodim(degree_, codim) ==
  CASE codim = 0 -> IF degree_ <= 2 THEN Ok(0)
                    ELSE Ok(((degree_ - 2) * (degree_ - 1)) \div 2)
    [] codim = 1 -> Ok(degree_ - 1)
    [] codim = 2 -> Ok(1)
    [] OTHER -> Fail("Illegal codim")

\* la + lb == 0 ? SCALAR(0) : l / (la + lb)
GuardedRatio(l, sum) == IF RIsZero(sum) THEN R(0) ELSE RDiv(l, sum)

\* Mutant of TriaBary: l1 is 1 - x, the second coordinate is not subtracted.
TriaBary_NoY(pt) ==
  LET l1 == RSub(R(1), pt[1])
      l2 == pt[1]
      l3 == pt[2]
  IN [l1 |-> l1, l2 |-> l2, l3 |-> l3,
      l121n |-> GuardedRatio(l1, RAdd(l1, l2)),
      l122n |-> GuardedRatio(l2, RAdd(l1, l2)),
      l232n |-> GuardedRatio(l2, RAdd(l2, l3)),
      l233n |-> GuardedRatio(l3, RAdd(l2, l3)),
      l313n |-> GuardedRatio(l3, RAdd(l3, l1)),
      l311n |-> GuardedRatio(l1, RAdd(l3, l1))]

\* The barycentric coordinate functions and the six normalised ratios at pt.
TriaBary(pt) ==
  LET l1 == RSub(RSub(R(1), pt[1]), pt[2])
      l2 == pt[1]
      l3 == pt[2]
  IN [l1 |-> l1, l2 |-> l2, l3 |-> l3,
      l121n |-> GuardedRatio(l1, RAdd(l1, l2)),
      l122n |-> GuardedRatio(l2, RAdd(l1, l2)),
      l232n |-> GuardedRatio(l2, RAdd(l2, l3)),
      l233n |-> GuardedRatio(l3, RAdd(l2, l3)),
      l313n |-> GuardedRatio(l3, RAdd(l3, l1)),
      l311n |-> GuardedRatio(l1, RAdd(l3, l1))]

\* The pair sum la + lb that is raised to the power i + 2 on edge e.
TriaEdgeSum(e, b) ==
  CASE e = 0 -> RAdd(b.l1, b.l2)
    [] e = 1 -> RAdd(b.l2, b.l3)
    [] e = 2 -> RAdd(b.l3, b.l1)

\* Mutant of TriaEdgeRatio: the third edge uses l311n for both orientations.
TriaEdgeRatio_SameOnEdge2(e, orient, b) ==
  CASE e = 0 -> IF orient = positive THEN b.l122n ELSE b.l121n
    [] e = 1 -> IF orient = positive THEN b.l233n ELSE b.l232n
    [] e = 2 -> b.l311n

\* The normalised ratio handed to LegendrePoly::integral on edge e.
TriaEdgeRatio(e, orient, b) ==
  CASE e = 0 -> IF orient = positive THEN b.l122n ELSE b.l121n
    [] e = 1 -> IF orient = positive THEN b.l233n ELSE b.l232n
    [] e = 2 -> IF orient = positive THEN b.l311n ELSE b.l313n

\* Mutant of TriaEdgeRow: the mirrored rows of the first edge start one row early.
TriaEdgeRow_Shifted(degree_, e, orient, i) ==
  CASE e = 0 -> IF orient = positive THEN 3 + i ELSE degree_ - i
    [] e = 1 -> IF orient = positive THEN degree_ + 2 + i ELSE 2 * degree_ - i
    [] e = 2 -> IF orient = positive THEN 2 * degree_ + 1 + i
                ELSE 3 * degree_ - 1 - i

\* Mutant of TriaEdgeRow: the rows of the third edge start one row early.
TriaEdgeRow_Overlap(degree_, e, orient, i) ==
  CASE e = 0 -> IF orient = positive THEN 3 + i ELSE degree_ + 1 - i
    [] e = 1 -> IF orient = positive THEN degree_ + 2 + i ELSE 2 * degree_ - i
    [] e = 2 -> IF orient = positive THEN 2 * degree_ + i
                ELSE 3 * degree_ - 1 - i

\* The row that receives mode i of edge e.
TriaEdgeRow(degree_, e, orient, i) ==
  CASE e = 0 -> IF orient = positive THEN 3 + i ELSE degree_ + 1 - i
    [] e = 1 -> IF orient = positive THEN degree_ + 2 + i ELSE 2 * degree_ - i
    [] e = 2 -> IF orient = positive THEN 2 * degree_ + 1 + i
                ELSE 3 * degree_ - 1 - i

\* pow(la + lb, i + 2) * LegendrePoly::integral(i + 2, ratio) at one point
TriaEdgeValue(e, orient, i, pt) ==
  LET b == TriaBary(pt) IN
  RMul(RPow(TriaEdgeSum(e, b), i + 2),
       LegendreIntegral(i + 2, TriaEdgeRatio(e, orient, b)))

\* The loop over the modes of edge e.
TriaEdgeWrites(degree_, rel_orient_, e, pts) ==
  [k \in 1 .. degree_ - 1 |->
     LET i == k - 1 IN
     [row |-> TriaEdgeRow(degree_, e, rel_orient_[e + 1], i),
      val |-> [c \in DOMAIN pts |-> TriaEdgeValue(e, rel_orient_[e + 1], i, pts[c])]]]

\* The nested loops over the interior functions; idx is the next row.
RECURSIVE TriaInteriorLoop(_, _, _, _, _, _, _)
TriaInteriorLoop(mat, degree_, rel_orient_, pts, i, j, idx) ==
  IF ~(i < degree_ - 2) THEN mat
  ELSE IF ~(j < degree_ - i - 2)
    THEN TriaInteriorLoop(mat, degree_, rel_orient_, pts, i + 1, 0, idx)
  ELSE LET edge == IF rel_orient_[2] = positive
                     THEN Row(mat, degree_ + 2 + i)
                     ELSE Row(mat, 2 * degree_ - i)
           jac == [c \in DOMAIN pts |->
                     JacobiIntegral(j + 1, 2 * i + 4, TriaBary(pts[c]).l1)]
       IN TriaInteriorLoop(WriteRow(mat, idx, RowMul(edge, jac)),
                           degree_, rel_orient_, pts, i, j + 1, idx + 1)

\* pts: the columns of refcoords
TriaEval(degree_, rel_orient_, pts) ==
  LET cols == DOMAIN pts
      vertices == << [row |-> 0, val |-> [c \in cols |-> TriaBary(pts[c]).l1]],
                     [row |-> 1, val |-> [c \in cols |-> TriaBary(pts[c]).l2]],
                     [row |-> 2, val |-> [c \in cols |-> TriaBary(pts[c]).l3]] >>
      edges == TriaEdgeWrites(degree_, rel_orient_, 0, pts)
               \o TriaEdgeWrites(degree_, rel_orient_, 1, pts)
               \o TriaEdgeWrites(degree_, rel_orient_, 2, pts)
      boundary == ApplyWrites(NewMatrix(TriaNumRefShapeFunctions(degree_), Len(pts)),
                              vertices \o edges)
  IN IF degree_ > 2
       THEN TriaInteriorLoop(boundary, degree_, rel_orient_, pts, 0, 0, 3 * degree_)
       ELSE boundary

\* Mutant of GuardedRatioDerivative: the quotient is formed without the guard.
GuardedRatioDerivative_NoGuard(l, l_d, sum, sum_d) ==
  RDiv(RSub(RMul(l_d, sum), RMul(l, sum_d)), RMul(sum, sum))

\* l1p2 == 0 ? SCALAR(0) : ((l_d * l1p2 - l * l1p2_d) / (l1p2 * l1p2))
GuardedRatioDerivative(l, l_d, sum, sum_d) ==
  IF RIsZero(sum) THEN R(0)
  ELSE RDiv(RSub(RMul(l_d, sum), RMul(l, sum_d)), RMul(sum, sum))

\* The local variables of one pass of the loop over the points in
\* GradientsReferenceShapeFunctions: the barycentric coordinates, the pair
\* sums and the six normalised ratios at pt with their partial derivatives.
TriaBaryGradients(pt) ==
  LET l1 == RSub(RSub(R(1), pt[1]), pt[2])
      l2 == pt[1]
      l3 == pt[2]
      l1_dx == R(-1)
      l1_dy == R(-1)
      l2_dx == R(1)
      l2_dy == R(0)
      l3_dx == R(0)
      l3_dy == R(1)
      l1p2 == RAdd(l1, l2)
      l1p2_dx == RAdd(l1_dx, l2_dx)
      l1p2_dy == RAdd(l1_dy, l2_dy)
      l2p3 == RAdd(l2, l3)
      l2p3_dx == RAdd(l2_dx, l3_dx)
      l2p3_dy == RAdd(l2_dy, l3_dy)
      l3p1 == RAdd(l3, l1)
      l3p1_dx == RAdd(l3_dx, l1_dx)
      l3p1_dy == RAdd(l3_dy, l1_dy)
  IN [l1 |-> l1, l2 |-> l2, l3 |-> l3,
      l1_dx |-> l1_dx, l1_dy |-> l1_dy,
      l2_dx |-> l2_dx, l2_dy |-> l2_dy,
      l3_dx |-> l3_dx, l3_dy |-> l3_dy,
      l1p2 |-> l1p2, l1p2_dx |-> l1p2_dx, l1p2_dy |-> l1p2_dy,
      l2p3 |-> l2p3, l2p3_dx |-> l2p3_dx, l2p3_dy |-> l2p3_dy,
      l3p1 |-> l3p1, l3p1_dx |-> l3p1_dx, l3p1_dy |-> l3p1_dy,
      l121n |-> GuardedRatio(l1, l1p2),
      l121n_dx |-> GuardedRatioDerivative(l1, l1_dx, l1p2, l1p2_dx),
      l121n_dy |-> GuardedRatioDerivative(l1, l1_dy, l1p2, l1p2_dy),
      l122n |-> GuardedRatio(l2, l1p2),
      l122n_dx |-> GuardedRatioDerivative(l2, l2_dx, l1p2, l1p2_dx),
      l122n_dy |-> GuardedRatioDerivative(l2, l2_dy, l1p2, l1p2_dy),
      l232n |-> GuardedRatio(l2, l2p3),
      l232n_dx |-> GuardedRatioDerivative(l2, l2_dx, l2p3, l2p3_dx),
      l232n_dy |-> GuardedRatioDerivative(l2, l2_dy, l2p3, l2p3_dy),
      l233n |-> GuardedRatio(l3, l2p3),
      l233n_dx |-> GuardedRatioDerivative(l3, l3_dx, l2p3, l2p3_dx),
      l233n_dy |-> GuardedRatioDerivative(l3, l3_dy, l2p3, l2p3_dy),
      l313n |-> GuardedRatio(l3, l3p1),
      l313n_dx |-> GuardedRatioDerivative(l3, l3_dx, l3p1, l3p1_dx),
      l313n_dy |-> GuardedRatioDerivative(l3, l3_dy, l3p1, l3p1_dy),
      l311n |-> GuardedRatio(l1, l3p1),
      l311n_dx |-> GuardedRatioDerivative(l1, l1_dx, l3p1, l3p1_dx),
      l311n_dy |-> GuardedRatioDerivative(l1, l1_dy, l3p1, l3p1_dy)]

\* The pair sum of edge e, the normalised ratio that the branch of
\* rel_orient_[e] uses, and their partial derivatives.
TriaEdgeTerms(e, orient, g) ==
  CASE e = 0 ->
         IF orient = positive
           THEN [sum |-> g.l1p2, sum_dx |-> g.l1p2_dx, sum_dy |-> g.l1p2_dy,
                 ratio |-> g.l122n, ratio_dx |-> g.l122n_dx, ratio_dy |-> g.l122n_dy]
           ELSE [sum |-> g.l1p2, sum_dx |-> g.l1p2_dx, sum_dy |-> g.l1p2_dy,
                 ratio |-> g.l121n, ratio_dx |-> g.l121n_dx, ratio_dy |-> g.l121n_dy]
    [] e = 1 ->
         IF orient = positive
           THEN [sum |-> g.l2p3, sum_dx |-> g.l2p3_dx, sum_dy |-> g.l2p3_dy,
                 ratio |-> g.l233n, ratio_dx |-> g.l233n_dx, ratio_dy |-> g.l233n_dy]
           ELSE [sum |-> g.l2p3, sum_dx |-> g.l2p3_dx, sum_dy |-> g.l2p3_dy,
                 ratio |-> g.l232n, ratio_dx |-> g.l232n_dx, ratio_dy |-> g.l232n_dy]
    [] e = 2 ->
         IF orient = positive
           THEN [sum |-> g.l3p1, sum_dx |-> g.l3p1_dx, sum_dy |-> g.l3p1_dy,
                 ratio |-> g.l311n, ratio_dx |-> g.l311n_dx, ratio_dy |-> g.l311n_dy]
           ELSE [sum |-> g.l3p1, sum_dx |-> g.l3p1_dx, sum_dy |-> g.l3p1_dy,
                 ratio |-> g.l313n, ratio_dx |-> g.l313n_dx, ratio_dy |-> g.l313n_dy]

\* sum_d * (j + 2) * pow(sum, j + 1) * leginte + pow(sum, j + 2) * ratio_d * legeval
\* for the two directions: the gradient of mode j of edge e at pt.
\* (CHOOSE r \in {F(v) : v \in {e}} : TRUE is F(e) with e evaluated once and
\* named v, like a const local variable of the code.)
TriaEdgeGradient(e, orient, j, pt) ==
  CHOOSE r \in
    {CHOOSE pair \in
       {<<RAdd(RMul(RMul(RMul(t.sum_dx, R(j + 2)), RPow(t.sum, j + 1)), leginte),
               RMul(RMul(RPow(t.sum, j + 2), t.ratio_dx), legeval)),
          RAdd(RMul(RMul(RMul(t.sum_dy, R(j + 2)), RPow(t.sum, j + 1)), leginte),
               RMul(RMul(RPow(t.sum, j + 2), t.ratio_dy), legeval))>> :
        leginte \in {LegendreIntegral(j + 2, t.ratio)},
        legeval \in {LegendreEval(j + 1, t.ratio)}} : TRUE :
     t \in {TriaEdgeTerms(e, orient, TriaBaryGradients(pt))}} : TRUE

\* Mutant of GradientRow: the two partial derivatives of a point change places.
GradientRow_Swapped(pairs) ==
  CHOOSE r \in {[c \in 1 .. 2 * Len(p) |-> p[(c + 1) \div 2][1 + (c % 2)]] :
                p \in {pairs}} : TRUE

\* A row of the gradient matrix: entries 2 i and 2 i + 1 hold the two partial
\* derivatives at point i.
GradientRow(pairs) ==
  CHOOSE r \in {[c \in 1 .. 2 * Len(p) |-> p[(c + 1) \div 2][2 - (c % 2)]] :
                p \in {pairs}} : TRUE

\* The loop over the modes of edge e, for all points.
TriaEdgeGradientWrites(degree_, rel_orient_, e, pts) ==
  [k \in 1 .. degree_ - 1 |->
     LET j == k - 1 IN
     [row |-> TriaEdgeRow(degree_, e, rel_orient_[e + 1], j),
      val |-> GradientRow([c \in DOMAIN pts |->
                             TriaEdgeGradient(e, rel_orient_[e + 1], j, pts[c])])]]

\* The nested loops over the interior functions (j outer, k inner); idx is
\* the next row.  edge_dx and edge_dy are read from the result.
RECURSIVE TriaInteriorGradientLoop(_, _, _, _, _, _, _)
TriaInteriorGradientLoop(mat, degree_, rel_orient_, pts, j, k, idx) ==
  IF ~(j < degree_ - 2) THEN mat
  ELSE IF ~(k < degree_ - j - 2)
    THEN TriaInteriorGradientLoop(mat, degree_, rel_orient_, pts, j + 1, 0, idx)
  ELSE CHOOSE r \in
         {TriaInteriorGradientLoop(
            WriteRow(m, idx,
              GradientRow([i \in DOMAIN pts |->
                CHOOSE entry \in
                  {CHOOSE pair \in
                     {<<RAdd(RMul(jackinte, edge[2 * (i - 1) + 1]),
                             RMul(RMul(edge_eval, jackeval), g.l1_dx)),
                        RAdd(RMul(jackinte, edge[2 * (i - 1) + 2]),
                             RMul(RMul(edge_eval, jackeval), g.l1_dy))>> :
                      edge_eval \in {RMul(RPow(g.l2p3, j + 2),
                                          LegendreIntegral(j + 2,
                                            IF rel_orient_[2] = positive
                                              THEN g.l233n ELSE g.l232n))},
                      jackinte \in {JacobiIntegral(k + 1, 2 * j + 4, g.l1)},
                      jackeval \in {JacobiEval(k, 2 * j + 4, g.l1)}} : TRUE :
                   g \in {TriaBaryGradients(pts[i])}} : TRUE])),
            degree_, rel_orient_, pts, j, k + 1, idx + 1) :
          m \in {mat},
          edge \in {IF rel_orient_[2] = positive
                      THEN Row(mat, 2 + degree_ + j)
                      ELSE Row(mat, 2 * degree_ - j)}} : TRUE

\* pts: the columns of refcoords.  The source runs the loop over the points
\* outermost; every entry depends on its own point only, so the rows are
\* assembled here mode by mode.
TriaVertexGradientWrites(g) ==
  << [row |-> 0, val |-> GradientRow([c \in DOMAIN g |-> <<g[c].l1_dx, g[c].l1_dy>>])],
     [row |-> 1, val |-> GradientRow([c \in DOMAIN g |-> <<g[c].l2_dx, g[c].l2_dy>>])],
     [row |-> 2, val |-> GradientRow([c \in DOMAIN g |-> <<g[c].l3_dx, g[c].l3_dy>>])] >>

TriaGradients(degree_, rel_orient_, pts) ==
  LET vertices == CHOOSE w \in {TriaVertexGradientWrites(g) :
                                  g \in {[c \in DOMAIN pts |->
                                            TriaBaryGradients(pts[c])]}} : TRUE
      edges == TriaEdgeGradientWrites(degree_, rel_orient_, 0, pts)
               \o TriaEdgeGradientWrites(degree_, rel_orient_, 1, pts)
               \o TriaEdgeGradientWrites(degree_, rel_orient_, 2, pts)
      boundary == ApplyWrites(NewMatrix(TriaNumRefShapeFunctions(degree_), 2 * Len(pts)),
                              IF Len(pts) = 0 THEN << >> ELSE vertices \o edges)
  IN IF degree_ > 2 /\ Len(pts) > 0
       THEN TriaInteriorGradientLoop(boundary, degree_, rel_orient_, pts, 0, 0,
                                     3 * degree_)
       ELSE boundary

(***************************************************************************)
(* FeHierarchicQuad; fe1d_ is a FeHierarchicSegment of the same degree.    *)
(***************************************************************************)
QuadNumRefShapeFunctions(degree_) == (degree_ + 1) * (degree_ + 1)

QuadNumRefShapeFunctionsCodim(degree_, codim) ==
  CASE codim = 0 -> Ok((degree_ - 1) * (degree_ - 1))
    [] codim = 1 -> Ok(degree_ - 1)
    [] codim = 2 -> Ok(1)
    [] OTHER -> Fail("Illegal codim")

\* Mutant of QuadEdgeRow: a negative edge fills its rows in ascending order.
QuadEdgeRow_Unmirrored(degree_, e, orient, i) ==
  CASE e = 0 -> 4 + i
    [] e = 1 -> 3 + degree_ + i
    [] e = 2 -> 2 + 2 * degree_ + i
    [] e = 3 -> 1 + 3 * degree_ + i

\* The row that receives mode i of edge e.
QuadEdgeRow(degree_, e, orient, i) ==
  CASE e = 0 -> IF orient = positive THEN 4 + i ELSE 2 + degree_ - i
    [] e = 1 -> IF orient = positive THEN 3 + degree_ + i ELSE 1 + 2 * degree_ - i
    [] e = 2 -> IF orient = positive THEN 2 + 2 * degree_ + i ELSE 3 * degree_ - i
    [] e = 3 -> IF orient = positive THEN 1 + 3 * degree_ + i
                ELSE 4 * degree_ - 1 - i

\* The two rows of 1D shape functions whose product is mode i of edge e;
\* sf holds sf1d_x, sf1d_y, sf1df_x and sf1df_y.
QuadEdgeFactors(e, orient, i, sf) ==
  CASE e = 0 -> IF orient = positive
                  THEN <<Row(sf.x, 2 + i), Row(sf.y, 0)>>
                  ELSE <<Row(sf.fx, 2 + i), Row(sf.y, 0)>>
    [] e = 1 -> IF orient = positive
                  THEN <<Row(sf.x, 1), Row(sf.y, 2 + i)>>
                  ELSE <<Row(sf.x, 1), Row(sf.fy, 2 + i)>>
    [] e = 2 -> IF orient = positive
                  THEN <<Row(sf.fx, 2 + i), Row(sf.y, 1)>>
                  ELSE <<Row(sf.x, 2 + i), Row(sf.y, 1)>>
    [] e = 3 -> IF orient = positive
                  THEN <<Row(sf.x, 0), Row(sf.fy, 2 + i)>>
                  ELSE <<Row(sf.x, 0), Row(sf.y, 2 + i)>>

\* The 1D shape functions at the x and y coordinates and at their complements.
QuadSf1d(degree_, pts) ==
  LET cols == DOMAIN pts IN
  [x |-> SegmentEval(degree_, [c \in cols |-> pts[c][1]]),
   y |-> SegmentEval(degree_, [c \in cols |-> pts[c][2]]),
   fx |-> SegmentEval(degree_, [c \in cols |-> RSub(R(1), pts[c][1])]),
   fy |-> SegmentEval(degree_, [c \in cols |-> RSub(R(1), pts[c][2])])]

\* A call of fe1d_ has assigned outside its result: the behaviour is
\* undefined from there on.
Sf1dOutOfRange(sf) == \E f \in DOMAIN sf : sf[f].oob

\* The loop over the modes of edge e.
QuadEdgeWrites(degree_, rel_orient_, e, sf) ==
  [k \in 1 .. degree_ - 1 |->
     LET i == k - 1
         f == QuadEdgeFactors(e, rel_orient_[e + 1], i, sf)
     IN [row |-> QuadEdgeRow(degree_, e, rel_orient_[e + 1], i),
         val |-> RowMul(f[1], f[2])]]

\* Mutant of QuadInteriorWrites: the two modes exchange their roles in the row.
QuadInteriorWrites_Transposed(degree_, sf) ==
  [k \in 1 .. ModePasses(degree_) * ModePasses(degree_) |->
     LET i == (k - 1) \div (degree_ - 1)
         j == (k - 1) % (degree_ - 1)
     IN [row |-> 4 * degree_ + (degree_ - 1) * j + i,
         val |-> RowMul(Row(sf.x, j + 2), Row(sf.y, i + 2))]]

\* The nested loops over the interior functions, i outer and j inner.
QuadInteriorWrites(degree_, sf) ==
  [k \in 1 .. ModePasses(degree_) * ModePasses(degree_) |->
     LET i == (k - 1) \div (degree_ - 1)
         j == (k - 1) % (degree_ - 1)
     IN [row |-> 4 * degree_ + (degree_ - 1) * i + j,
         val |-> RowMul(Row(sf.x, j + 2), Row(sf.y, i + 2))]]

\* The four vertex functions.
QuadVertexWrites(sf) ==
  << [row |-> 0, val |-> RowMul(Row(sf.x, 0), Row(sf.y, 0))],
     [row |-> 1, val |-> RowMul(Row(sf.x, 1), Row(sf.y, 0))],
     [row |-> 2, val |-> RowMul(Row(sf.x, 1), Row(sf.y, 1))],
     [row |-> 3, val |-> RowMul(Row(sf.x, 0), Row(sf.y, 1))] >>

QuadEval(degree_, rel_orient_, pts) ==
  CHOOSE result \in
    {IF Sf1dOutOfRange(sf)
       THEN [NewMatrix(QuadNumRefShapeFunctions(degree_), Len(pts)) EXCEPT !.oob = TRUE]
       ELSE ApplyWrites(NewMatrix(QuadNumRefShapeFunctions(degree_), Len(pts)),
                        QuadVertexWrites(sf)
                        \o QuadEdgeWrites(degree_, rel_orient_, 0, sf)
                        \o QuadEdgeWrites(degree_, rel_orient_, 1, sf)
                        \o QuadEdgeWrites(degree_, rel_orient_, 2, sf)
                        \o QuadEdgeWrites(degree_, rel_orient_, 3, sf)
                        \o QuadInteriorWrites(degree_, sf)) :
     sf \in {QuadSf1d(degree_, pts)}} : TRUE

\* The 1D shape functions and their gradients at the x and y coordinates and
\* at their complements.
QuadSf1dGradients(degree_, pts) ==
  LET cols == DOMAIN pts
      xs == [c \in cols |-> pts[c][1]]
      ys == [c \in cols |-> pts[c][2]]
      fxs == [c \in cols |-> RSub(R(1), pts[c][1])]
      fys == [c \in cols |-> RSub(R(1), pts[c][2])]
  IN [x |-> SegmentEval(degree_, xs),
      y |-> SegmentEval(degree_, ys),
      dx |-> SegmentGradients(degree_, xs),
      dy |-> SegmentGradients(degree_, ys),
      fx |-> SegmentEval(degree_, fxs),
      fy |-> SegmentEval(degree_, fys),
      fdx |-> SegmentGradients(degree_, fxs),
      fdy |-> SegmentGradients(degree_, fys)]

\* -a.array()
\* Mutant of RowNeg: the derivative of a function of 1 - x is taken as that of x.
RowNeg_Plus(a) == a

RowNeg(a) == [c \in DOMAIN a |-> RNeg(a[c])]

\* The gradient row that is assembled from the row dx of the derivatives in x
\* and the row dy of the derivatives in y.
GradientRowOf(dx, dy) ==
  CHOOSE r \in {[c \in 1 .. 2 * Len(a) |->
                   IF c % 2 = 1 THEN a[(c + 1) \div 2] ELSE b[c \div 2]] :
                a \in {dx}, b \in {dy}} : TRUE

\* The two partial derivatives of mode j of edge e, each a row over the points.
QuadEdgeGradient(e, orient, j, sf) ==
  CASE e = 0 -> IF orient = positive
                  THEN <<RowMul(Row(sf.dx, 2 + j), Row(sf.y, 0)),
                         RowMul(Row(sf.x, 2 + j), Row(sf.dy, 0))>>
                  ELSE <<RowMul(RowNeg(Row(sf.fdx, 2 + j)), Row(sf.y, 0)),
                         RowMul(Row(sf.fx, 2 + j), Row(sf.dy, 0))>>
    [] e = 1 -> IF orient = positive
                  THEN <<RowMul(Row(sf.dx, 1), Row(sf.y, 2 + j)),
                         RowMul(Row(sf.x, 1), Row(sf.dy, 2 + j))>>
                  ELSE <<RowMul(Row(sf.dx, 1), Row(sf.fy, 2 + j)),
                         RowMul(Row(sf.x, 1), RowNeg(Row(sf.fdy, 2 + j)))>>
    [] e = 2 -> IF orient = positive
                  THEN <<RowMul(RowNeg(Row(sf.fdx, 2 + j)), Row(sf.y, 1)),
                         RowMul(Row(sf.fx, 2 + j), Row(sf.dy, 1))>>
                  ELSE <<RowMul(Row(sf.dx, 2 + j), Row(sf.y, 1)),
                         RowMul(Row(sf.x, 2 + j), Row(sf.dy, 1))>>
    [] e = 3 -> IF orient = positive
                  THEN <<RowMul(Row(sf.dx, 0), Row(sf.fy, 2 + j)),
                         RowMul(Row(sf.x, 0), RowNeg(Row(sf.fdy, 2 + j)))>>
                  ELSE <<RowMul(Row(sf.dx, 0), Row(sf.y, 2 + j)),
                         RowMul(Row(sf.x, 0), Row(sf.dy, 2 + j))>>

\* The loop over the modes of edge e.
QuadEdgeGradientWrites(degree_, rel_orient_, e, sf) ==
  [k \in 1 .. degree_ - 1 |->
     LET j == k - 1
         d == QuadEdgeGradient(e, rel_orient_[e + 1], j, sf)
     IN [row |-> QuadEdgeRow(degree_, e, rel_orient_[e + 1], j),
         val |-> GradientRowOf(d[1], d[2])]]

\* The nested loops over the interior functions, j outer and k inner.
QuadInteriorGradientWrites(degree_, sf) ==
  [n \in 1 .. ModePasses(degree_) * ModePasses(degree_) |->
     LET j == (n - 1) \div (degree_ - 1)
         k == (n - 1) % (degree_ - 1)
     IN [row |-> 4 * degree_ + (degree_ - 1) * j + k,
         val |-> GradientRowOf(RowMul(Row(sf.dx, k + 2), Row(sf.y, j + 2)),
                               RowMul(Row(sf.x, k + 2), Row(sf.dy, j + 2)))]]

\* The source runs the loop over the points outermost; the rows are assembled
\* here mode by mode.
QuadVertexGradientWrites(sf) ==
  LET vertex(row, a, b) ==
        [row |-> row,
         val |-> GradientRowOf(RowMul(Row(sf.dx, a), Row(sf.y, b)),
                               RowMul(Row(sf.x, a), Row(sf.dy, b)))]
  IN << vertex(0, 0, 0), vertex(1, 1, 0), vertex(2, 1, 1), vertex(3, 0, 1) >>

QuadGradients(degree_, rel_orient_, pts) ==
  CHOOSE r \in
    {IF Sf1dOutOfRange(sf)
       THEN [NewMatrix(QuadNumRefShapeFunctions(degree_), 2 * Len(pts))
               EXCEPT !.oob = TRUE]
       ELSE ApplyWrites(NewMatrix(QuadNumRefShapeFunctions(degree_), 2 * Len(pts)),
                        IF Len(pts) = 0 THEN << >>
                        ELSE QuadVertexGradientWrites(sf)
                             \o QuadEdgeGradientWrites(degree_, rel_orient_, 0, sf)
                             \o QuadEdgeGradientWrites(degree_, rel_orient_, 1, sf)
                             \o QuadEdgeGradientWrites(degree_, rel_orient_, 2, sf)
                             \o QuadEdgeGradientWrites(degree_, rel_orient_, 3, sf)
                             \o QuadInteriorGradientWrites(degree_, sf)) :
     sf \in {QuadSf1dGradients(degree_, pts)}} : TRUE

(***************************************************************************)
(* Eigen::VectorXd chebyshevNodes(unsigned n) is declared but not defined  *)
(* in the sources at hand.  The nodes are the n Chebyshev nodes of the     *)
(* second kind that lie inside the interval, mapped to [0, 1] in ascending *)
(* order: (1 - cos(k * pi / (n + 1))) / 2 for k = 1 .. n.  They are        *)
(* rational for n <= 2; a double is a dyadic fraction, and for n >= 3 the  *)
(* table gives each node rounded to the nearest multiple of 1/16.          *)
(***************************************************************************)
chebyshevNodes(n) ==
  CASE n = 0 -> << >>
    [] n = 1 -> << <<1, 2>> >>
    [] n = 2 -> << <<1, 4>>, <<3, 4>> >>
    [] n = 3 -> << <<1, 8>>, <<1, 2>>, <<7, 8>> >>
    [] n = 4 -> << <<1, 8>>, <<3, 8>>, <<5, 8>>, <<7, 8>> >>

(***************************************************************************)
(* Eigen::MatrixXd nodes(dim, ncols): one point per column, columns        *)
(* 0-based in the source and stored at index column + 1 here.              *)
(***************************************************************************)
NewNodes(dim, ncols) ==
  [cols |-> [k \in 1 .. ncols |-> [d \in 1 .. dim |-> Indeterminate]],
   log |-> << >>,
   oob |-> FALSE]

\* nodes(0, k) = pt[1]; nodes(1, k) = pt[2];
WriteCol(nodes, k, pt) ==
  IF nodes.oob THEN nodes
  ELSE IF k + 1 \in DOMAIN nodes.cols
    THEN [nodes EXCEPT !.cols[k + 1] = pt, !.log = Append(@, k)]
    ELSE [nodes EXCEPT !.oob = TRUE, !.log = Append(@, k)]

RECURSIVE ApplyColWrites(_, _)
ApplyColWrites(nodes, writes) ==
  IF writes = << >> THEN nodes
  ELSE ApplyColWrites(WriteCol(nodes, Head(writes).col, Head(writes).pt), Tail(writes))

SegmentComputeEvaluationNodes(degree_) ==
  LET cheb == chebyshevNodes(degree_ - 1)
      ends == << [col |-> 0, pt |-> <<R(0)>>], [col |-> 1, pt |-> <<R(1)>>] >>
      block == IF degree_ > 1
                 THEN [k \in 1 .. degree_ - 1 |-> [col |-> 2 + (k - 1), pt |-> <<cheb[k]>>]]
                 ELSE << >>
  IN ApplyColWrites(NewNodes(1, degree_ + 1), ends \o block)

\* Mutant of TriaEdgeNode: the nodes of the second edge lie on the first edge.
TriaEdgeNode_Edge1OnEdge0(e, c) ==
  CASE e = 0 -> <<c, R(0)>>
    [] e = 1 -> <<c, R(0)>>
    [] e = 2 -> <<R(0), RSub(R(1), c)>>

\* The evaluation node of edge e that belongs to the Chebyshev node c.
TriaEdgeNode(e, c) ==
  CASE e = 0 -> <<c, R(0)>>
    [] e = 1 -> <<RSub(R(1), c), c>>
    [] e = 2 -> <<R(0), RSub(R(1), c)>>

TriaEdgeNodeCol(degree_, e, i) ==
  CASE e = 0 -> 3 + i
    [] e = 1 -> 2 + degree_ + i
    [] e = 2 -> 1 + 2 * degree_ + i

RECURSIVE TriaInteriorNodesLoop(_, _, _, _, _, _)
TriaInteriorNodesLoop(nodes, degree_, cheb, i, j, idx) ==
  IF ~(i < degree_ - 2) THEN nodes
  ELSE IF ~(j < degree_ - 2 - i)
    THEN TriaInteriorNodesLoop(nodes, degree_, cheb, i + 1, 0, idx)
  ELSE TriaInteriorNodesLoop(WriteCol(nodes, idx, <<cheb[j + 1], cheb[i + 1]>>),
                             degree_, cheb, i, j + 1, idx + 1)

TriaComputeEvaluationNodes(degree_) ==
  LET cheb == chebyshevNodes(degree_ - 1)
      vertices == << [col |-> 0, pt |-> <<R(0), R(0)>>],
                     [col |-> 1, pt |-> <<R(1), R(0)>>],
                     [col |-> 2, pt |-> <<R(0), R(1)>>] >>
      edge(e) == [k \in 1 .. degree_ - 1 |->
                    [col |-> TriaEdgeNodeCol(degree_, e, k - 1),
                     pt |-> TriaEdgeNode(e, cheb[k])]]
      boundary == ApplyColWrites(NewNodes(2, TriaNumRefShapeFunctions(degree_)),
                                 vertices \o edge(0) \o edge(1) \o edge(2))
  IN IF degree_ > 2
       THEN TriaInteriorNodesLoop(boundary, degree_, cheb, 0, 0, 3 * degree_)
       ELSE boundary

\* Mutant of QuadEdgeNode: the nodes of the fourth edge run from vertex 0 to
\* vertex 3.
QuadEdgeNode_Edge3Upward(e, c) ==
  CASE e = 0 -> <<c, R(0)>>
    [] e = 1 -> <<R(1), c>>
    [] e = 2 -> <<RSub(R(1), c), R(1)>>
    [] e = 3 -> <<R(0), c>>

QuadEdgeNode(e, c) ==
  CASE e = 0 -> <<c, R(0)>>
    [] e = 1 -> <<R(1), c>>
    [] e = 2 -> <<RSub(R(1), c), R(1)>>
    [] e = 3 -> <<R(0), RSub(R(1), c)>>

QuadEdgeNodeCol(degree_, e, i) ==
  CASE e = 0 -> 4 + i
    [] e = 1 -> 3 + degree_ + i
    [] e = 2 -> 2 + 2 * degree_ + i
    [] e = 3 -> 1 + 3 * degree_ + i

QuadComputeEvaluationNodes(degree_) ==
  LET cheb == chebyshevNodes(degree_ - 1)
      vertices == << [col |-> 0, pt |-> <<R(0), R(0)>>],
                     [col |-> 1, pt |-> <<R(1), R(0)>>],
                     [col |-> 2, pt |-> <<R(1), R(1)>>],
                     [col |-> 3, pt |-> <<R(0), R(1)>>] >>
      edge(e) == [k \in 1 .. degree_ - 1 |->
                    [col |-> QuadEdgeNodeCol(degree_, e, k - 1),
                     pt |-> QuadEdgeNode(e, cheb[k])]]
      interior == [k \in 1 .. ModePasses(degree_) * ModePasses(degree_) |->
                     LET i == (k - 1) \div (degree_ - 1)
                         j == (k - 1) % (degree_ - 1)
                     IN [col |-> 4 * degree_ + (degree_ - 1) * i + j,
                         pt |-> <<cheb[j + 1], cheb[i + 1]>>]]
  IN ApplyColWrites(NewNodes(2, QuadNumRefShapeFunctions(degree_)),
                    vertices \o edge(0) \o edge(1) \o edge(2) \o edge(3) \o interior)

\* FeHierarchicPoint::EvaluationNodes returns Eigen::MatrixXd(0, 1).
PointEvaluationNodes == NewNodes(0, 1)

(***************************************************************************)
(* Dispatch over the four classes (virtual member functions of             *)
(* ScalarReferenceFiniteElement).                                          *)
(***************************************************************************)
ComputeEvaluationNodes(type, degree_) ==
  CASE type = kPoint -> PointEvaluationNodes
    [] type = kSegment -> SegmentComputeEvaluationNodes(degree_)
    [] type = kTria -> TriaComputeEvaluationNodes(degree_)
    [] type = kQuad -> QuadComputeEvaluationNodes(degree_)

NumRefShapeFunctions(type, degree_) ==
  CASE type = kSegment -> SegmentNumRefShapeFunctions(degree_)
    [] type = kTria -> TriaNumRefShapeFunctions(degree_)
    [] type = kQuad -> QuadNumRefShapeFunctions(degree_)

NumRefShapeFunctionsCodim(type, degree_, codim, subidx) ==
  CASE type = kPoint -> PointNumRefShapeFunctions(codim, subidx)
    [] type = kSegment -> SegmentNumRefShapeFunctionsCodim(degree_, codim)
    [] type = kTria -> TriaNumRefShapeFunctionsCodim(degree_, codim)
    [] type = kQuad -> QuadNumRefShapeFunctionsCodim(degree_, codim)

NumEvaluationNodes(type, degree_) ==
  CASE type = kPoint -> 1
    [] type = kSegment -> degree_ + 1
    [] type = kTria -> TriaNumRefShapeFunctions(degree_)
    [] type = kQuad -> QuadNumRefShapeFunctions(degree_)

MatOk(mat) == [ok |-> TRUE, mat |-> mat, err |-> ""]
MatFail(msg) == [ok |-> FALSE, mat |-> NewMatrix(0, 0), err |-> msg]

\* refcoords = [nrows, pts]: a coordinate matrix with one point per column.
EvalReferenceShapeFunctions(type, degree_, rel_orient_, refcoords) ==
  CASE type = kPoint -> PointEval(refcoords.nrows, Len(refcoords.pts))
    [] type = kSegment ->
         IF ~(refcoords.nrows = 1) THEN MatFail("refcoords must be a row vector")
         ELSE MatOk(SegmentEval(degree_, [c \in DOMAIN refcoords.pts |-> refcoords.pts[c][1]]))
    [] type = kTria -> MatOk(TriaEval(degree_, rel_orient_, refcoords.pts))
    [] type = kQuad -> MatOk(QuadEval(degree_, rel_orient_, refcoords.pts))

GradientsReferenceShapeFunctions(type, degree_, rel_orient_, refcoords) ==
  CASE type = kPoint -> PointGradients(Len(refcoords.pts))
    [] type = kSegment ->
         IF ~(refcoords.nrows = 1) THEN MatFail("refcoords must be a row vector")
         ELSE MatOk(SegmentGradients(degree_, [c \in DOMAIN refcoords.pts |-> refcoords.pts[c][1]]))
    [] type = kTria -> MatOk(TriaGradients(degree_, rel_orient_, refcoords.pts))
    [] type = kQuad -> MatOk(QuadGradients(degree_, rel_orient_, refcoords.pts))

(***************************************************************************)
(* shape_functions_at_nodes.transpose().fullPivHouseholderQr().solve(...): *)
(* the solution of the square linear system.  The system is solved exactly *)
(* in the prime field of order SolveModulus by Gauss-Jordan elimination;   *)
(* no denominator of a matrix entry is a multiple of SolveModulus, a       *)
(* matrix that is regular in this field is regular over the rationals,     *)
(* and the solution in the field is then the residue of the rational       *)
(* solution.  The decomposition returns no meaningful solution for a       *)
(* singular matrix.                                                        *)
(***************************************************************************)
SolveModulus == 32749

\* In the operators below CHOOSE r \in {F(v) : v \in {e}} : TRUE is F(e) with
\* e evaluated once and named v, like a const local variable of the code.
RECURSIVE PowMod(_, _)
PowMod(a, n) ==
  IF n = 0 THEN 1
  ELSE CHOOSE r \in {IF n % 2 = 1
                       THEN (((h * h) % SolveModulus) * a) % SolveModulus
                       ELSE (h * h) % SolveModulus :
                     h \in {PowMod(a, n \div 2)}} : TRUE

InvMod(a) == PowMod(a, SolveModulus - 2)

\* The residue of the fraction a.
Residue(a) == ((a[1] % SolveModulus) * InvMod(a[2] % SolveModulus)) % SolveModulus

\* The outcome of the solve: the solution x of a regular system; for a
\* singular system the decomposition returns a vector that solves nothing.
Solution(x) == [regular |-> TRUE, x |-> x]
Singular == [regular |-> FALSE, x |-> << >>]

\* The augmented matrices with n rows: every entry is a residue.
IsResidueMatrix(m, n) == m \in [1 .. n -> [1 .. n + 1 -> 0 .. SolveModulus - 1]]

\* Row i after the normalised pivot row prow of column col has been
\* subtracted from it.
ReduceRow(row, prow, n, col) ==
  IF row[col] = 0 THEN row
  ELSE [j \in 1 .. n + 1 |->
          (row[j] + (SolveModulus - row[col]) * prow[j]) % SolveModulus]

\* One step of the elimination: row piv is normalised, exchanged with row
\* col and subtracted from the other rows.
PivotStep(m, n, col, piv) ==
  CHOOSE r \in {[i \in 1 .. n |->
                   IF i = col THEN prow
                   ELSE ReduceRow(IF i = piv THEN m[col] ELSE m[i], prow, n, col)] :
                prow \in {[j \in 1 .. n + 1 |->
                             (m[piv][j] * InvMod(m[piv][col])) % SolveModulus]}} : TRUE

\* The first row from col on with a non-zero entry in column col, 0 if none.
PivotRow(m, n, col) ==
  LET candidates == {r \in col .. n : m[r][col] # 0} IN
  IF candidates = {} THEN 0
  ELSE CHOOSE r \in candidates : \A r2 \in candidates : r <= r2

\* Gauss-Jordan elimination on the augmented matrix with n rows, from pivot
\* column col on.
RECURSIVE Eliminate(_, _, _)
Eliminate(augmented, n, col) ==
  CHOOSE x \in
    {IF ~IsResidueMatrix(m, n) THEN Singular
     ELSE IF col > n THEN Solution([i \in 1 .. n |-> m[i][n + 1]])
     ELSE CHOOSE y \in {IF piv = 0 THEN Singular
                        ELSE Eliminate(PivotStep(m, n, col, piv), n, col + 1) :
                        piv \in {PivotRow(m, n, col)}} : TRUE :
     m \in {augmented}} : TRUE

\* The x with x * shape_functions_at_nodes = nodevals.
SolveTransposed(shape_functions_at_nodes, nodevals) ==
  LET n == Len(shape_functions_at_nodes.rows)
      determinate == \A i \in 1 .. n : \A j \in 1 .. n :
                       shape_functions_at_nodes.rows[i][j] # Indeterminate
      augmented == [i \in 1 .. n |->
                      [j \in 1 .. n + 1 |->
                         IF j <= n THEN Residue(shape_functions_at_nodes.rows[j][i])
                         ELSE Residue(nodevals[i])]]
  IN IF determinate THEN Eliminate(augmented, n, 1) ELSE Singular

EvaluationNodes(type, eval_nodes_) ==
  [nrows |-> Dimension(type), pts |-> eval_nodes_.cols]

NodalValuesToDofs(type, degree_, rel_orient_, eval_nodes_, nodevals) ==
  CHOOSE dofs \in
    {SolveTransposed(shape_functions_at_nodes, nodevals) :
       shape_functions_at_nodes \in
         {EvalReferenceShapeFunctions(type, degree_, rel_orient_,
                                      EvaluationNodes(type, eval_nodes_)).mat}} : TRUE

(***************************************************************************)
(* The shape-function sets as a state machine: a set is constructed from a *)
(* degree and the caller's orientation array, its member functions are     *)
(* called one at a time, and it is destroyed.                              *)
(***************************************************************************)
Degrees(type, maxDegree) ==
  IF type = kPoint THEN 0 .. maxDegree ELSE 1 .. maxDegree

\* Number of entries of the orientation array handed to the constructor.
NumOrientations(type) ==
  CASE type = kPoint -> 0
    [] type = kSegment -> 1
    [] type = kTria -> 3
    [] type = kQuad -> 4

OrientationVectors(type) == [1 .. NumOrientations(type) -> Orientations]

\* The member functions that read rel_orient_: the edge loops of a triangle
\* or quadrilateral, which run for degree_ > 1.
ReadsSpan(type, degree_) == type \in {kTria, kQuad} /\ degree_ > 1

\* rel_orient_[e] as the member functions read it through the span: what the
\* caller's array holds now; once the array is released the span dangles and
\* a read returns any values.
SpanViews ==
  IF store.alive \/ ~ReadsSpan(fe.type, fe.degree_)
    THEN {store.data}
    ELSE OrientationVectors(fe.type)

\* A read through a dangling span may also end the program.
DanglingOutcomes ==
  IF store.alive \/ ~ReadsSpan(fe.type, fe.degree_)
    THEN {}
    ELSE {[NoOut EXCEPT !.ok = FALSE, !.err = "read of released storage"]}

GridValues == {Frac(a, GridDen) : a \in 0 .. GridDen}

\* Sample points with d coordinates; those of a triangle lie in the triangle.
GridPoints(type, d) ==
  CASE d = 0 -> {<< >>}
    [] d = 1 -> {<<x>> : x \in GridValues}
    [] d = 2 -> UNION {{<<Frac(a, GridDen), Frac(b, GridDen)>> :
                          b \in 0 .. (IF type = kTria THEN GridDen - a ELSE GridDen)} :
                         a \in 0 .. GridDen}

Mirror(pt) ==
  CASE Len(pt) = 0 -> pt
    [] Len(pt) = 1 -> <<RSub(R(1), pt[1])>>
    [] Len(pt) = 2 -> <<pt[2], pt[1]>>

\* Coordinate matrices: n columns that alternate between pt and its mirror image.
Columns(pt, n) == [c \in 1 .. n |-> IF c % 2 = 1 THEN pt ELSE Mirror(pt)]

RowCounts(type) ==
  IF type \in {kPoint, kSegment}
    THEN {Dimension(type), Dimension(type) + 1}
    ELSE {Dimension(type)}

RefCoords(type) ==
  UNION {{[nrows |-> d, pts |-> Columns(pt, n)] :
            pt \in GridPoints(type, d), n \in 0 .. MaxCols} :
           d \in RowCounts(type)}

FeInit ==
  /\ call = NoCall
  /\ ret = Ok(0)
  /\ FeIdle

\* FeHierarchicPoint(degree) / FeHierarchicSegment, Tria, Quad(degree, rel_orient)
ConstructUpTo(maxDegree) ==
  \E type \in RefElTypes :
    \E degree \in Degrees(type, maxDegree), rel_orient \in OrientationVectors(type) :
      /\ ~fe.live
      /\ store' = [alive |-> TRUE, data |-> rel_orient, passed |-> rel_orient,
                   writes |-> 0]
      /\ fe' = [live |-> TRUE, type |-> type, degree_ |-> degree,
                rel_orient_ |-> Len(rel_orient),
                eval_nodes_ |-> ComputeEvaluationNodes(type, degree)]
      /\ UNCHANGED <<fcall, out, threads, topoVars, spaceVars, polyVars>>

Construct == ConstructUpTo(MaxDegree)

Destroy ==
  /\ fe.live
  /\ fcall = NoFCall
  /\ fe' = NoFe
  /\ store' = NoStore
  /\ UNCHANGED <<fcall, out, threads, topoVars, spaceVars, polyVars>>

Idle == fe.live /\ fcall = NoFCall

\* NumRefShapeFunctions()
CallNumRefShapeFunctions ==
  /\ Idle
  /\ fe.type # kPoint
  /\ fcall' = [NoFCall EXCEPT !.op = "NumRefShapeFunctions"]
  /\ out' = [NoOut EXCEPT !.val = NumRefShapeFunctions(fe.type, fe.degree_)]
  /\ UNCHANGED <<fe, store, threads, topoVars, spaceVars, polyVars>>

\* NumRefShapeFunctions(codim) and NumRefShapeFunctions(codim, subidx)
CallNumRefShapeFunctionsCodim ==
  \E codim \in 0 .. MaxCodimArg, subidx \in 0 .. 1 :
    /\ Idle
    /\ fcall' = [NoFCall EXCEPT !.op = "NumRefShapeFunctionsCodim",
                                !.codim = codim, !.subidx = subidx]
    /\ LET r == NumRefShapeFunctionsCodim(fe.type, fe.degree_, codim, subidx)
       IN out' = [NoOut EXCEPT !.ok = r.ok, !.val = r.val, !.err = r.err]
    /\ UNCHANGED <<fe, store, threads, topoVars, spaceVars, polyVars>>

\* An assignment to a row the result does not have is undefined behaviour: the
\* call is aborted (Eigen's index assertion) or returns with memory overwritten.
MatOutcomes(r) ==
  IF r.ok /\ r.mat.oob
    THEN {[NoOut EXCEPT !.ok = FALSE, !.err = "row index out of range"],
          [NoOut EXCEPT !.mat = r.mat]}
    ELSE IF r.ok THEN {[NoOut EXCEPT !.mat = r.mat]}
    ELSE {[NoOut EXCEPT !.ok = FALSE, !.err = r.err]}

\* EvalReferenceShapeFunctions(refcoords) with refcoords from the given set
CallEvalOn(coords) ==
  \E refcoords \in coords, rel_orient \in SpanViews :
    /\ Idle
    /\ fcall' = [NoFCall EXCEPT !.op = "EvalReferenceShapeFunctions",
                                !.refcoords = refcoords]
    /\ out' \in MatOutcomes(EvalReferenceShapeFunctions(fe.type, fe.degree_,
                                                         rel_orient, refcoords))
                  \cup DanglingOutcomes
    /\ UNCHANGED <<fe, store, threads, topoVars, spaceVars, polyVars>>

CallEvalReferenceShapeFunctions == CallEvalOn(RefCoords(fe.type))

\* GradientsReferenceShapeFunctions(refcoords) with refcoords from the given set
CallGradientsOn(coords) ==
  \E refcoords \in coords, rel_orient \in SpanViews :
    /\ Idle
    /\ fcall' = [NoFCall EXCEPT !.op = "GradientsReferenceShapeFunctions",
                                !.refcoords = refcoords]
    /\ out' \in MatOutcomes(GradientsReferenceShapeFunctions(fe.type, fe.degree_,
                                                              rel_orient, refcoords))
                  \cup DanglingOutcomes
    /\ UNCHANGED <<fe, store, threads, topoVars, spaceVars, polyVars>>

CallGradientsReferenceShapeFunctions == CallGradientsOn(RefCoords(fe.type))

FeReturn ==
  /\ fe.live
  /\ fcall # NoFCall
  /\ fcall' = NoFCall
  /\ out' = NoOut
  /\ UNCHANGED <<fe, store, threads, topoVars, spaceVars, polyVars>>

FeNext ==
  \/ Construct
  \/ Destroy
  \/ CallNumRefShapeFunctions
  \/ CallNumRefShapeFunctionsCodim
  \/ CallEvalReferenceShapeFunctions
  \/ CallGradientsReferenceShapeFunctions
  \/ FeReturn

SpecFe == FeInit /\ [][FeNext]_vars

(***************************************************************************)
(* The round trip through the evaluation nodes: NodalValuesToDofs is       *)
(* called with row k of the shape functions at the evaluation nodes.       *)
(***************************************************************************)
ConstructForSolve == ConstructUpTo(MaxSolveDegree)

CallNodalValuesToDofs ==
  /\ Idle
  /\ fe.type # kPoint
  /\ \E rel_orient \in SpanViews :
       \E atNodes \in {EvalReferenceShapeFunctions(fe.type, fe.degree_, rel_orient,
                         EvaluationNodes(fe.type, fe.eval_nodes_)).mat} :
         \E k \in 0 .. Len(atNodes.rows) - 1 :
           \E nodevals \in {Row(atNodes, k)} :
             /\ fcall' = [NoFCall EXCEPT !.op = "NodalValuesToDofs", !.k = k]
             /\ out' = [NoOut EXCEPT !.dofs = NodalValuesToDofs(fe.type, fe.degree_,
                                                rel_orient, fe.eval_nodes_, nodevals)]
  /\ UNCHANGED <<fe, store, threads, topoVars, spaceVars, polyVars>>

SolveNext ==
  \/ ConstructForSolve
  \/ Destroy
  \/ CallNodalValuesToDofs
  \/ FeReturn

SpecSolve == FeInit /\ [][SolveNext]_vars

(***************************************************************************)
(* The layout of the rows and of the evaluation nodes: sets of degree up   *)
(* to MaxLayoutDegree are constructed and evaluated.                       *)
(***************************************************************************)
ConstructForLayout == ConstructUpTo(MaxLayoutDegree)

LayoutNext ==
  \/ ConstructForLayout
  \/ Destroy
  \/ CallEvalReferenceShapeFunctions
  \/ FeReturn

SpecLayout == FeInit /\ [][LayoutNext]_vars

(***************************************************************************)
(* The gradients: sets of degree up to MaxGradDegree are constructed and   *)
(* their gradients are evaluated.                                          *)
(***************************************************************************)
MaxGradDegree == 4

ConstructForGradients == ConstructUpTo(MaxGradDegree)

GradNext ==
  \/ ConstructForGradients
  \/ Destroy
  \/ CallGradientsReferenceShapeFunctions
  \/ FeReturn

SpecGrad == FeInit /\ [][GradNext]_vars

(***************************************************************************)
(* Several threads call the const member functions of one shape-function   *)
(* set.  A call reads the members when it is invoked, computes its result  *)
(* from what it read, and returns; the steps of the threads interleave.    *)
(***************************************************************************)
MaxConcDegree == 2

ConstructShared == ConstructUpTo(MaxConcDegree)

\* The object and the caller's orientation array as a member function finds them.
Members == [fe |-> fe, data |-> store.data]

\* FeHierarchicPoint inherits NumRefShapeFunctions() and NodalValuesToDofs.
Methods(type) ==
  {"Degree", "EvalReferenceShapeFunctions", "GradientsReferenceShapeFunctions",
   "EvaluationNodes", "NumEvaluationNodes"}
    \cup (IF type = kPoint THEN {} ELSE {"NumRefShapeFunctions", "NodalValuesToDofs"})

\* The coordinate matrix of the calls that take one: the midpoint as its only
\* column.
SharedCoords(type, op) ==
  IF op \in {"EvalReferenceShapeFunctions", "GradientsReferenceShapeFunctions"}
    THEN {[nrows |-> Dimension(type),
           pts |-> << [i \in 1 .. Dimension(type) |-> Frac(1, 2)] >>]}
    ELSE {NoCoords}

\* Nodal values that are 1 at the first evaluation node and 0 at the others.
SharedNodevals(type, degree_, op) ==
  IF op = "NodalValuesToDofs"
    THEN {[i \in 1 .. NumEvaluationNodes(type, degree_) |->
             IF i = 1 THEN R(1) ELSE R(0)]}
    ELSE {<< >>}

\* What the member function op returns when it finds the members m.
MethodOutcomes(op, m, refcoords, nodevals) ==
  CHOOSE outcomes \in
    {CASE op = "Degree" -> {[NoOut EXCEPT !.val = degree_]}
       [] op = "NumRefShapeFunctions" ->
            {[NoOut EXCEPT !.val = NumRefShapeFunctions(type, degree_)]}
       [] op = "EvalReferenceShapeFunctions" ->
            MatOutcomes(EvalReferenceShapeFunctions(type, degree_, rel_orient_,
                                                    refcoords))
       [] op = "GradientsReferenceShapeFunctions" ->
            MatOutcomes(GradientsReferenceShapeFunctions(type, degree_, rel_orient_,
                                                         refcoords))
       [] op = "EvaluationNodes" ->
            {[NoOut EXCEPT !.mat = EvaluationNodes(type, eval_nodes_)]}
       [] op = "NumEvaluationNodes" ->
            {[NoOut EXCEPT !.val = NumEvaluationNodes(type, degree_)]}
       [] op = "NodalValuesToDofs" ->
            {[NoOut EXCEPT !.dofs = NodalValuesToDofs(type, degree_, rel_orient_,
                                                      eval_nodes_, nodevals)]} :
     type \in {m.fe.type}, degree_ \in {m.fe.degree_}, rel_orient_ \in {m.data},
     eval_nodes_ \in {m.fe.eval_nodes_}} : TRUE

\* The object after the member function op has run on it.
AfterCall_CachesNodes(op, object) ==
  IF op = "EvalReferenceShapeFunctions"
    THEN [object EXCEPT !.eval_nodes_ = [@ EXCEPT !.cols = << >>]]
    ELSE object

\* Every member function is const and no member is mutable.
AfterCall(op, object) ==
  object

Invoke(t) ==
  /\ fe.live
  /\ threads[t].pc = "idle"
  /\ \E op \in Methods(fe.type) :
       \E refcoords \in SharedCoords(fe.type, op),
          nodevals \in SharedNodevals(fe.type, fe.degree_, op) :
         threads' = [threads EXCEPT ![t] =
                       [NoThread EXCEPT !.pc = "called", !.op = op,
                                        !.refcoords = refcoords,
                                        !.nodevals = nodevals, !.local = Members]]
  /\ UNCHANGED <<fe, store, fcall, out, topoVars, spaceVars, polyVars>>

Finish(t) ==
  /\ threads[t].pc = "called"
  /\ \E op \in {threads[t].op}, local \in {threads[t].local},
        refcoords \in {threads[t].refcoords}, nodevals \in {threads[t].nodevals} :
       \E result \in MethodOutcomes(op, local, refcoords, nodevals) :
         threads' = [threads EXCEPT ![t].pc = "done", ![t].result = result]
  /\ fe' = AfterCall(threads[t].op, fe)
  /\ UNCHANGED <<store, fcall, out, topoVars, spaceVars, polyVars>>

\* The caller has consumed the result.
Retire(t) ==
  /\ threads[t].pc = "done"
  /\ threads' = [threads EXCEPT ![t] = NoThread]
  /\ UNCHANGED <<fe, store, fcall, out, topoVars, spaceVars, polyVars>>

\* Some thread takes its next step on the live set.
ThreadInvoke == fe.live /\ \E t \in Threads : Invoke(t)
ThreadFinish == fe.live /\ \E t \in Threads : Finish(t)
ThreadRetire == fe.live /\ \E t \in Threads : Retire(t)

\* The set is destroyed only while no call runs on it.
DestroyShared ==
  /\ \A t \in Threads : threads[t].pc = "idle"
  /\ Destroy

ConcNext ==
  \/ ConstructShared
  \/ DestroyShared
  \/ ThreadInvoke
  \/ ThreadFinish
  \/ ThreadRetire

SpecConc == FeInit /\ [][ConcNext]_vars

(***************************************************************************)
(* FeSpaceHierarchic over a mesh of one cell: the constructor stores a     *)
(* shape-function layout for every entity of the mesh in ref_el_, and the  *)
(* member functions look the layout of an entity up.                       *)
(***************************************************************************)
MaxSpaceDegree == 3
MaxCells == 2
NumMeshEdges == 2
NumMeshNodes == 2

IllegalEntityType == "Illegal entity type"
NoDofHandler == "No valid FE space object: no dof handler"

\* The orientation arrays the cells of the meshes report: all positive, or
\* the first edge negative.
CellOrientations(type) ==
  {rel_orient \in OrientationVectors(type) :
     \A e \in 2 .. Len(rel_orient) : rel_orient[e] = positive}

\* A cell of a mesh: a triangle, a quadrilateral, or (in a mesh of dimension
\* one) a segment.
Cells ==
  UNION {{[type |-> type, rel_orient |-> rel_orient] :
            rel_orient \in CellOrientations(type)} : type \in {kSegment, kTria, kQuad}}

\* The meshes: the cells in the order in which Entities(0) visits them, the
\* orientation array of each edge, and the number of nodes.
Meshes ==
  UNION {[cells : [1 .. k -> Cells],
          edges : [1 .. NumMeshEdges -> OrientationVectors(kSegment)],
          nodes : {NumMeshNodes}] : k \in 1 .. MaxCells}

\* Mesh()->Entities(codim), in the order of the visit.
NumEntities(mesh, codim) ==
  CASE codim = 0 -> Len(mesh.cells)
    [] codim = 1 -> Len(mesh.edges)
    [] codim = 2 -> mesh.nodes

Entities(mesh, codim) ==
  {[codim |-> codim, index |-> i] : i \in 0 .. NumEntities(mesh, codim) - 1}

\* entity->RefEl()
EntityRefEl(mesh, entity) ==
  CASE entity.codim = 0 -> mesh.cells[entity.index + 1].type
    [] entity.codim = 1 -> kSegment
    [] entity.codim = 2 -> kPoint

\* Mutant of RelativeOrientations: every entity reports the array of entity 0.
RelativeOrientations_OfFirst(mesh, entity) ==
  CASE entity.codim = 0 -> mesh.cells[1].rel_orient
    [] entity.codim = 1 -> mesh.edges[1]
    [] entity.codim = 2 -> << >>

\* entity->RelativeOrientations()
RelativeOrientations(mesh, entity) ==
  CASE entity.codim = 0 -> mesh.cells[entity.index + 1].rel_orient
    [] entity.codim = 1 -> mesh.edges[entity.index + 1]
    [] entity.codim = 2 -> << >>

\* std::make_shared<FeHierarchic...>(degree_, entity->RelativeOrientations())
MakeLayout(mesh, degree_, entity) ==
  [null |-> FALSE, type |-> EntityRefEl(mesh, entity), degree_ |-> degree_,
   rel_orient_ |-> RelativeOrientations(mesh, entity)]

\* Mutant of InteriorShapeFunctions: the total number of shape functions.
InteriorShapeFunctions_Total(layout) ==
  NumRefShapeFunctions(layout.type, layout.degree_)

\* ref_el_(*entity)->NumRefShapeFunctions(0)
InteriorShapeFunctions(layout) ==
  NumRefShapeFunctionsCodim(layout.type, layout.degree_, 0, 0).val

\* ref_el_(mesh_p, nullptr), num_rsf_node = 1 and the other counts 0
InitStart(mesh) ==
  [ok |-> TRUE,
   ref_el_ |-> [entity \in Entities(mesh, 0) \cup Entities(mesh, 1)
                             \cup Entities(mesh, 2) |-> NoLayout],
   num_rsf |-> [type \in RefElTypes |-> IF type = kPoint THEN 1 ELSE 0]]

\* One pass of a loop of init() over Mesh()->Entities(codim): the layout of
\* the entity is stored and, for an edge or a cell, the count of its kind is
\* overwritten; a cell that is neither triangle nor quadrilateral fails.
InitVisit(mesh, degree_, st, entity) ==
  LET layout == MakeLayout(mesh, degree_, entity)
      stored == [st EXCEPT !.ref_el_[entity] = layout]
  IN CASE entity.codim = 2 -> stored
       [] entity.codim = 1 ->
            [stored EXCEPT !.num_rsf[kSegment] = InteriorShapeFunctions(layout)]
       [] entity.codim = 0 /\ layout.type \in {kTria, kQuad} ->
            [stored EXCEPT !.num_rsf[layout.type] = InteriorShapeFunctions(layout)]
       [] OTHER -> [st EXCEPT !.ok = FALSE]

\* for (auto entity : Mesh()->Entities(codim)), from the i-th entity on
RECURSIVE InitLoop(_, _, _, _, _)
InitLoop(mesh, degree_, st, codim, i) ==
  IF ~st.ok \/ i >= NumEntities(mesh, codim)
    THEN st
    ELSE InitLoop(mesh, degree_,
                  InitVisit(mesh, degree_, st, [codim |-> codim, index |-> i]),
                  codim, i + 1)

\* init(): the loops over the nodes, the edges and the cells, and then the
\* dof handler made from the four counts.
SpaceInit(mesh, degree_) ==
  LET nodes == InitLoop(mesh, degree_, InitStart(mesh), 2, 0)
      edges == InitLoop(mesh, degree_, nodes, 1, 0)
      cells == InitLoop(mesh, degree_, edges, 0, 0)
  IN [ok |-> cells.ok, ref_el_ |-> cells.ref_el_,
      dofh_p_ |-> [null |-> FALSE, rsf_layout |-> cells.num_rsf]]

\* FeSpaceHierarchic::ShapeFunctionLayout(entity)
ShapeFunctionLayout(ref_el_, entity) == ref_el_[entity]

\* FeSpaceHierarchic::NumRefShapeFunctions(entity)
SpaceNumRefShapeFunctions(ref_el_, entity) ==
  NumRefShapeFunctions(ShapeFunctionLayout(ref_el_, entity).type,
                       ShapeFunctionLayout(ref_el_, entity).degree_)

\* FeSpaceHierarchic::LocGlobMap()
LocGlobMap(dofh_p_) == IF dofh_p_.null THEN NoDofHandler ELSE ""

\* FeSpaceHierarchic(mesh_p, N): a failed LF_VERIFY_MSG of init() leaves no
\* object behind.
ConstructSpace ==
  \E mesh \in Meshes, N \in 1 .. MaxSpaceDegree :
    LET made == SpaceInit(mesh, N)
    IN /\ ~space.live
       /\ scall = NoSCall
       /\ IF made.ok
            THEN /\ space' = [live |-> TRUE, mesh |-> mesh, degree_ |-> N,
                              ref_el_ |-> made.ref_el_, dofh_p_ |-> made.dofh_p_]
                 /\ scall' = scall
            ELSE /\ space' = space
                 /\ scall' = [NoSCall EXCEPT !.op = "FeSpaceHierarchic", !.mesh = mesh,
                                             !.val = N, !.err = IllegalEntityType]
       /\ UNCHANGED <<fe, store, fcall, out, threads, topoVars, polyVars>>

DestroySpace ==
  /\ space.live
  /\ scall = NoSCall
  /\ space' = NoSpace
  /\ UNCHANGED <<scall, fe, store, fcall, out, threads, topoVars, polyVars>>

CallShapeFunctionLayout ==
  \E codim \in 0 .. 2 :
    \E entity \in Entities(space.mesh, codim) :
      /\ space.live
      /\ scall = NoSCall
      /\ scall' = [NoSCall EXCEPT !.op = "ShapeFunctionLayout", !.entity = entity,
                                  !.layout = ShapeFunctionLayout(space.ref_el_, entity)]
      /\ UNCHANGED <<space, fe, store, fcall, out, threads, topoVars, polyVars>>

\* The layout of a vertex inherits NumRefShapeFunctions() from its base class.
CallSpaceNumRefShapeFunctions ==
  \E codim \in 0 .. 1 :
    \E entity \in Entities(space.mesh, codim) :
      /\ space.live
      /\ scall = NoSCall
      /\ scall' = [NoSCall EXCEPT !.op = "NumRefShapeFunctions", !.entity = entity,
                                  !.val = SpaceNumRefShapeFunctions(space.ref_el_,
                                                                    entity)]
      /\ UNCHANGED <<space, fe, store, fcall, out, threads, topoVars, polyVars>>

CallLocGlobMap ==
  /\ space.live
  /\ scall = NoSCall
  /\ scall' = [NoSCall EXCEPT !.op = "LocGlobMap", !.err = LocGlobMap(space.dofh_p_)]
  /\ UNCHANGED <<space, fe, store, fcall, out, threads, topoVars, polyVars>>

\* The caller has consumed the result, or handled the failure.
SpaceReturn ==
  /\ scall # NoSCall
  /\ scall' = NoSCall
  /\ UNCHANGED <<space, fe, store, fcall, out, threads, topoVars, polyVars>>

SpaceNext ==
  \/ ConstructSpace
  \/ DestroySpace
  \/ CallShapeFunctionLayout
  \/ CallSpaceNumRefShapeFunctions
  \/ CallLocGlobMap
  \/ SpaceReturn

SpecSpace == FeInit /\ [][SpaceNext]_vars

(***************************************************************************)
(* LegendrePoly / JacobiPoly statement by statement: a call sets up the    *)
(* locals, each loop iteration is one step, and leaving the loop computes  *)
(* the return value.  vjm2, vjm1, vj are Ljm2, Ljm1, Lj resp. Pjm2, Pjm1,  *)
(* Pj; steps counts the iterations and divisors collects every integer a   *)
(* quotient of the call was divided by.                                    *)
(***************************************************************************)
MaxPolyDegree == 4
MaxAlpha == 4
PolyDen == 3

PolyDegrees == 0 .. MaxPolyDegree
PolyAlphas == 0 .. MaxAlpha
PolyPoints == {Frac(k, PolyDen) : k \in 0 .. PolyDen}

\* The divisors of anL, bnL, cnL.
JacobiIntegralDivisors(n, alpha) ==
  {(2 * n + alpha - 1) * (2 * n + alpha),
   (2 * n + alpha - 2) * (2 * n + alpha),
   (2 * n + alpha - 2) * (2 * n + alpha - 1)}

\* return statement of a call that does not enter a loop
PolyDone(p, val) == [p EXCEPT !.pc = "done", !.val = val]

CallLegendreEval ==
  \E n \in PolyDegrees, x0 \in PolyPoints :
    LET x == RSub(RMul(R(2), x0), R(1))
        Ljm1 == R(1)
        Lj == x
        p == [NoPoly EXCEPT !.fn = "LegendrePoly::eval", !.n = n, !.x0 = x0,
                            !.x = x, !.vjm1 = Ljm1, !.vj = Lj]
    IN /\ poly = NoPoly
       /\ poly' = IF n = 0 THEN PolyDone(p, Ljm1)
                  ELSE IF n = 1 THEN PolyDone(p, Lj)
                  ELSE [p EXCEPT !.pc = "loop", !.j = 1]
       /\ UNCHANGED <<topoVars, fe, store, fcall, out, threads, spaceVars>>

CallLegendreIntegral ==
  \E n \in PolyDegrees, x0 \in PolyPoints :
    LET p == [NoPoly EXCEPT !.fn = "LegendrePoly::integral", !.n = n, !.x0 = x0,
                            !.x = x0]
        x == RSub(RMul(R(2), x0), R(1))
        Ljm2 == R(1)
        Ljm1 == x
        Lj == RDiv(RSub(RMul(R(3), RMul(x, x)), R(1)), R(2))
    IN /\ poly = NoPoly
       /\ poly' = IF n = 0 THEN PolyDone(p, R(-1))
                  ELSE IF n = 1 THEN PolyDone(p, x0)
                  ELSE [p EXCEPT !.pc = "loop", !.j = 2, !.x = x, !.vjm2 = Ljm2,
                                 !.vjm1 = Ljm1, !.vj = Lj, !.divisors = {2}]
       /\ UNCHANGED <<topoVars, fe, store, fcall, out, threads, spaceVars>>

CallJacobiEval ==
  \E n \in PolyDegrees, alpha \in PolyAlphas, x \in PolyPoints :
    LET Pjm1 == R(1)
        Pj == RSub(RMul(R(2 + alpha), x), R(1))
        p == [NoPoly EXCEPT !.fn = "JacobiPoly::eval", !.n = n, !.alpha = alpha,
                            !.x0 = x, !.x = x, !.vjm1 = Pjm1, !.vj = Pj]
    IN /\ poly = NoPoly
       /\ poly' = IF n = 0 THEN PolyDone(p, Pjm1)
                  ELSE IF n = 1 THEN PolyDone(p, Pj)
                  ELSE [p EXCEPT !.pc = "loop", !.j = 1]
       /\ UNCHANGED <<topoVars, fe, store, fcall, out, threads, spaceVars>>

CallJacobiIntegral ==
  \E n \in PolyDegrees, alpha \in PolyAlphas, x \in PolyPoints :
    LET p == [NoPoly EXCEPT !.fn = "JacobiPoly::integral", !.n = n, !.alpha = alpha,
                            !.x0 = x, !.x = x]
        Pjm2 == R(1)
        Pjm1 == RSub(RMul(R(2 + alpha), x), R(1))
        Pj == JacobiStep(1, alpha, x, Pjm2, Pjm1)
    IN /\ poly = NoPoly
       /\ poly' = IF n = 0 THEN PolyDone(p, R(-1))
                  ELSE IF n = 1 THEN PolyDone(p, x)
                  ELSE [p EXCEPT !.pc = "loop", !.j = 2, !.vjm2 = Pjm2, !.vjm1 = Pjm1,
                                 !.vj = Pj, !.divisors = {JacobiDivisor(1, alpha)}]
       /\ UNCHANGED <<topoVars, fe, store, fcall, out, threads, spaceVars>>

\* One iteration of for (unsigned j = ...; j < n; ++j).
PolyIterate ==
  /\ poly.pc = "loop"
  /\ poly.j < poly.n
  /\ poly' =
       IF poly.fn \in {"LegendrePoly::eval", "LegendrePoly::integral"}
         THEN [poly EXCEPT !.vj = LegendreStep(poly.j, poly.x, poly.vjm1, poly.vj),
                           !.vjm1 = poly.vj, !.vjm2 = poly.vjm1,
                           !.j = poly.j + 1, !.steps = poly.steps + 1,
                           !.divisors = poly.divisors \cup {poly.j + 1}]
         ELSE [poly EXCEPT !.vj = JacobiStep(poly.j, poly.alpha, poly.x,
                                             poly.vjm1, poly.vj),
                           !.vjm1 = poly.vj, !.vjm2 = poly.vjm1,
                           !.j = poly.j + 1, !.steps = poly.steps + 1,
                           !.divisors = poly.divisors
                                          \cup {JacobiDivisor(poly.j, poly.alpha)}]
  /\ UNCHANGED <<topoVars, fe, store, fcall, out, threads, spaceVars>>

\* The loop condition fails: the statements after the loop and the return.
PolyLeaveLoop ==
  /\ poly.pc = "loop"
  /\ ~(poly.j < poly.n)
  /\ poly' =
       CASE poly.fn \in {"LegendrePoly::eval", "JacobiPoly::eval"} ->
              PolyDone(poly, poly.vj)
         [] poly.fn = "LegendrePoly::integral" ->
              [PolyDone(poly, RDiv(RSub(poly.vj, poly.vjm2), R(4 * poly.n - 2)))
                 EXCEPT !.divisors = poly.divisors \cup {4 * poly.n - 2}]
         [] poly.fn = "JacobiPoly::integral" ->
              LET n == poly.n
                  alpha == poly.alpha
                  anL == Frac(n + alpha, (2 * n + alpha - 1) * (2 * n + alpha))
                  bnL == Frac(alpha, (2 * n + alpha - 2) * (2 * n + alpha))
                  cnL == Frac(n - 1, (2 * n + alpha - 2) * (2 * n + alpha - 1))
              IN [PolyDone(poly, RSub(RAdd(RMul(anL, poly.vj), RMul(bnL, poly.vjm1)),
                                      RMul(cnL, poly.vjm2)))
                    EXCEPT !.divisors = poly.divisors
                                          \cup JacobiIntegralDivisors(n, alpha)]
  /\ UNCHANGED <<topoVars, fe, store, fcall, out, threads, spaceVars>>

\* The caller has consumed the value.
PolyReturn ==
  /\ poly.pc = "done"
  /\ poly' = NoPoly
  /\ UNCHANGED <<topoVars, fe, store, fcall, out, threads, spaceVars>>

PolyNext ==
  \/ CallLegendreEval
  \/ CallLegendreIntegral
  \/ CallJacobiEval
  \/ CallJacobiIntegral
  \/ PolyIterate
  \/ PolyLeaveLoop
  \/ PolyReturn

SpecPoly == FeInit /\ [][PolyNext]_vars

(***************************************************************************)
(* The caller's orientation array behind the span rel_orient_: between two *)
(* calls the caller may overwrite an entry of the array or release it.     *)
(***************************************************************************)
MaxSpanDegree == 3
MaxWrites == 1

ConstructViewed == ConstructUpTo(MaxSpanDegree)

\* One point in the interior of the element, off its lines of symmetry.
SpanCoords(type) ==
  {[nrows |-> Dimension(type),
    pts |-> << [i \in 1 .. Dimension(type) |-> Frac(i, 4)] >>]}

\* The caller assigns the other orientation to an entry of its array.
CallerWrites ==
  \E e \in DOMAIN store.data :
    /\ Idle
    /\ store.alive
    /\ store.writes < MaxWrites
    /\ store' = [store EXCEPT !.data[e] = IF @ = positive THEN negative ELSE positive,
                              !.writes = @ + 1]
    /\ UNCHANGED <<fe, fcall, out, threads, topoVars, spaceVars, polyVars>>

\* The caller's array goes out of scope or is freed.
CallerReleases ==
  /\ Idle
  /\ store.alive
  /\ store' = [store EXCEPT !.alive = FALSE]
  /\ UNCHANGED <<fe, fcall, out, threads, topoVars, spaceVars, polyVars>>

CallEvalViewed == CallEvalOn(SpanCoords(fe.type))
CallGradientsViewed == CallGradientsOn(SpanCoords(fe.type))

SpanNext ==
  \/ ConstructViewed
  \/ Destroy
  \/ CallerWrites
  \/ CallerReleases
  \/ CallEvalViewed
  \/ CallGradientsViewed
  \/ FeReturn

SpecSpan == FeInit /\ [][SpanNext]_vars

(***************************************************************************)
(* Shape-function sets of degree 0.  degree_ and size_type are unsigned    *)
(* 32-bit integers: a value of 2^31 or more appears here as the negative   *)
(* integer with the same 32 bits (2^32 - 1 as -1), so that degree_ - 1 is  *)
(* computed modulo 2^32.  An assignment outside a matrix is undefined      *)
(* behaviour: the matrix keeps oob and the later assignments of the        *)
(* function are not followed.                                              *)
(***************************************************************************)
\* a < b for two unsigned 32-bit values
ULess(a, b) == IF (a < 0) = (b < 0) THEN a < b ELSE b < 0

\* i < degree_ - 1 at the first pass (i = 0) of a loop over the modes of an
\* edge or of the interior: i is converted to unsigned.
ModeLoopEntered(degree_) == ULess(0, degree_ - 1)

ColumnOutOfRange == "column index out of range"

\* FeHierarchicSegment / Tria / Quad(0, rel_orient): when ComputeEvaluationNodes
\* assigns outside eval_nodes the constructor is aborted (Eigen's index
\* assertion) or completes with memory overwritten.
ConstructDegreeZero ==
  \E type \in {kSegment, kTria, kQuad} :
    \E rel_orient \in OrientationVectors(type), aborted \in BOOLEAN :
      LET eval_nodes == ComputeEvaluationNodes(type, 0)
      IN /\ ~fe.live
         /\ fcall = NoFCall
         /\ aborted => eval_nodes.oob
         /\ IF aborted
              THEN /\ fcall' = [NoFCall EXCEPT !.op = "constructor"]
                   /\ out' = [NoOut EXCEPT !.ok = FALSE, !.err = ColumnOutOfRange]
                   /\ UNCHANGED <<fe, store>>
              ELSE /\ store' = [alive |-> TRUE, data |-> rel_orient,
                                passed |-> rel_orient, writes |-> 0]
                   /\ fe' = [live |-> TRUE, type |-> type, degree_ |-> 0,
                             rel_orient_ |-> Len(rel_orient),
                             eval_nodes_ |-> eval_nodes]
                   /\ UNCHANGED <<fcall, out>>
         /\ UNCHANGED <<threads, topoVars, spaceVars, polyVars>>

\* The caller has handled the failed construction.
AbortHandled ==
  /\ fcall.op = "constructor"
  /\ fcall' = NoFCall
  /\ out' = NoOut
  /\ UNCHANGED <<fe, store, threads, topoVars, spaceVars, polyVars>>

ZeroNext ==
  \/ ConstructDegreeZero
  \/ AbortHandled
  \/ Destroy
  \/ CallNumRefShapeFunctions
  \/ CallNumRefShapeFunctionsCodim
  \/ CallEvalViewed
  \/ CallGradientsViewed
  \/ FeReturn

SpecZero == FeInit /\ [][ZeroNext]_vars

(***************************************************************************)
(* Claims about the reference-element topology, checked under SpecTopo.    *)
(***************************************************************************)

\* The vertex pairs the documentation gives for the edges of a triangle and
\* of a quadrilateral (0-based edge e, endpoint k).
DocumentedEdgeVertex(type, e, k) ==
  IF type = kTria
    THEN << <<0, 1>>, <<1, 2>>, <<2, 0>> >>[e + 1][k + 1]
    ELSE << <<0, 1>>, <<1, 2>>, <<2, 3>>, <<3, 0>> >>[e + 1][k + 1]

\* The arguments of the current call lie within the documented ranges.
ValidSubArgs ==
  /\ call.sub_codim \in 0 .. Dimension(call.type)
  /\ call.sub_index \in 0 .. NumSubEntities(call.type, call.sub_codim).val - 1

ValidSubSubArgs ==
  /\ ValidSubArgs
  /\ call.sub_sub_codim \in 0 .. Dimension(call.type) - call.sub_codim
  /\ call.sub_sub_index \in
       0 .. NumSubEntities(SubType(call.type, call.sub_codim, call.sub_index).val,
                           call.sub_sub_codim).val - 1

\* C1: for every edge e of a Triangle or Quad and every endpoint k in {0,1},
\* SubSubEntity2SubEntity(1, e, 1, k) returns the k-th vertex of edge e of the
\* table (0,1),(1,2),(2,0) resp. (0,1),(1,2),(2,3),(3,0).
C1_EdgeVertexTable ==
  ( /\ call.op = "SubSubEntity2SubEntity"
    /\ call.type \in {kTria, kQuad}
    /\ call.sub_codim = 1
    /\ call.sub_index \in 0 .. NumNodes(call.type) - 1
    /\ call.sub_sub_codim = 1
    /\ call.sub_sub_index \in {0, 1} )
  => ret = Ok(DocumentedEdgeVertex(call.type, call.sub_index, call.sub_sub_index))

\* C2: NumSubEntities fails exactly when codim < 0 or codim > Dimension; every
\* other call returns 1 for codim 0 and else 2 / 3 / 4 for Segment / Triangle /
\* Quad, and the "not implemented" branch is never taken.
C2_NumSubEntities ==
  call.op = "NumSubEntities" =>
    /\ ~ret.ok <=> (call.sub_codim < 0 \/ call.sub_codim > Dimension(call.type))
    /\ ret.ok =>
         ret.val = IF call.sub_codim = 0 THEN 1
                   ELSE CASE call.type = kSegment -> 2
                          [] call.type = kTria -> 3
                          [] call.type = kQuad -> 4
    /\ ret.err # NotImplemented

W2_PointCodim0 ==
  /\ call.op = "NumSubEntities"
  /\ call.type = kPoint
  /\ call.sub_codim = 0
  /\ ret = Ok(1)

\* C3: for valid (codim, index) SubType returns the kind itself for codim 0,
\* Point for codim = Dimension and Segment for Dimension - codim = 1, and no
\* call of SubType reaches its final "should never be reached" failure.
C3_SubType ==
  call.op = "SubType" =>
    /\ ret.err # NeverReached
    /\ ValidSubArgs =>
         /\ ret.ok
         /\ call.sub_codim = 0 => ret.val = call.type
         /\ call.sub_codim = Dimension(call.type) => ret.val = kPoint
         /\ Dimension(call.type) - call.sub_codim = 1 => ret.val = kSegment

W3_TriaEdgeIsSegment ==
  /\ call.op = "SubType"
  /\ call.type = kTria
  /\ call.sub_codim = 1
  /\ call.sub_index = 2
  /\ ret = Ok(kSegment)

\* C4: for valid arguments SubSubEntity2SubEntity returns 0 for a Point,
\* sub_sub_index for sub_codim = 0 and sub_index for sub_codim = Dimension; the
\* lookup table is consulted only for an edge of a Triangle or a Quad.
C4_SubSubShortcuts ==
  (call.op = "SubSubEntity2SubEntity" /\ ValidSubSubArgs) =>
    /\ call.type = kPoint => ret = Ok(0)
    /\ call.sub_codim = 0 => ret = Ok(call.sub_sub_index)
    /\ call.sub_codim = Dimension(call.type) => ret = Ok(call.sub_index)
    /\ ConsultsTable(call.type, call.sub_codim) =>
         (call.type \in {kTria, kQuad} /\ call.sub_codim = 1)

W4_WholeElementVertex ==
  /\ call.op = "SubSubEntity2SubEntity"
  /\ call.type = kTria
  /\ call.sub_codim = 0
  /\ call.sub_sub_codim = 2
  /\ call.sub_sub_index = 2
  /\ ret = Ok(2)

\* C5: SubType and SubSubEntity2SubEntity fail, and return no value, when
\* sub_index is negative or >= NumSubEntities(sub_codim), when sub_sub_codim is
\* negative or > Dimension - sub_codim, or when sub_sub_index is negative or >=
\* the number of sub-entities of that codimension of the selected sub-entity.
C5_BoundViolationsFail ==
  LET dim == Dimension(call.type)
      badIndex == \/ call.sub_index < 0
                  \/ call.sub_index >= NumSubEntities(call.type, call.sub_codim).val
      badSubCodim == \/ call.sub_sub_codim < 0
                     \/ call.sub_sub_codim > dim - call.sub_codim
      badSubIndex ==
        \/ call.sub_sub_index < 0
        \/ call.sub_sub_index >=
             NumSubEntities(SubTypeOfCodim(call.type, call.sub_codim).val,
                            call.sub_sub_codim).val
  IN call.sub_codim \in 0 .. dim =>
       /\ (call.op = "SubType" /\ badIndex) => ~ret.ok
       /\ ( /\ call.op = "SubSubEntity2SubEntity"
            /\ (badIndex \/ badSubCodim \/ badSubIndex) ) => ~ret.ok

W5_IndexEqualsCount ==
  /\ call.op = "SubSubEntity2SubEntity"
  /\ call.type = kTria
  /\ call.sub_codim = 1
  /\ call.sub_index = 3
  /\ call.sub_sub_codim = 1
  /\ call.sub_sub_index = 0
  /\ ~ret.ok


(***************************************************************************)
(* Claims about the hierarchic shape-function sets, checked under SpecFe.  *)
(***************************************************************************)
Flipped(orient) == IF orient = positive THEN negative ELSE positive

\* rel_orient with the orientation of edge e reversed.
FlipEdge(rel_orient, e) == [rel_orient EXCEPT ![e + 1] = Flipped(rel_orient[e + 1])]

\* The point at which the two endpoints of edge e have exchanged their roles.
ExchangeEndpoints(type, e, pt) ==
  LET x == pt[1]
      y == pt[2]
      l1 == RSub(RSub(R(1), x), y)
  IN IF type = kTria
       THEN CASE e = 0 -> <<l1, y>>
              [] e = 1 -> <<y, x>>
              [] e = 2 -> <<x, l1>>
       ELSE IF e \in {0, 2} THEN <<RSub(R(1), x), y>> ELSE <<x, RSub(R(1), y)>>

ExchangedCoords(type, e, refcoords) ==
  [refcoords EXCEPT !.pts = [c \in DOMAIN refcoords.pts |->
                               ExchangeEndpoints(type, e, refcoords.pts[c])]]

EdgeRow(type, degree_, e, orient, i) ==
  IF type = kTria THEN TriaEdgeRow(degree_, e, orient, i)
  ELSE QuadEdgeRow(degree_, e, orient, i)

Evaluated(type) ==
  /\ fe.live
  /\ fe.type = type
  /\ fcall.op = "EvalReferenceShapeFunctions"
  /\ out.ok

\* C6: on every edge e of a triangle or quadrilateral and for every mode
\* i in 0..p-2, the value of mode i under the orientation of the instance
\* equals the value of mode i under the reversed orientation of edge e at
\* the point where the two endpoints of e are exchanged.
C6_OrientationSymmetry ==
  \A type \in {kTria, kQuad} :
    Evaluated(type) =>
      \A e \in 0 .. NumOrientations(type) - 1, i \in 0 .. fe.degree_ - 2,
         c \in DOMAIN fcall.refcoords.pts :
        LET rev == FlipEdge(store.data, e)
            other == EvalReferenceShapeFunctions(type, fe.degree_, rev,
                       ExchangedCoords(type, e, fcall.refcoords)).mat
        IN Row(out.mat, EdgeRow(type, fe.degree_, e, store.data[e + 1], i))[c]
           = Row(other, EdgeRow(type, fe.degree_, e, rev[e + 1], i))[c]

\* A cubic triangle with the third edge reversed, evaluated at a point of that
\* edge where the odd mode does not vanish.
W6_NegativeEdgeValue ==
  /\ Evaluated(kTria)
  /\ fe.degree_ = 3
  /\ store.data[3] = negative
  /\ Len(fcall.refcoords.pts) >= 1
  /\ fcall.refcoords.pts[1] = <<R(0), Frac(1, 4)>>
  /\ ~RIsZero(Row(out.mat, TriaEdgeRow(3, 2, negative, 1))[1])

ClaimedCount(type, p, codim) ==
  CASE codim = Dimension(type) -> 1
    [] codim = Dimension(type) - 1 -> p - 1
    [] OTHER -> IF type = kTria
                  THEN (IF (p - 2) * (p - 1) > 0 THEN ((p - 2) * (p - 1)) \div 2 ELSE 0)
                  ELSE (p - 1) * (p - 1)

ClaimedTotal(type, p) ==
  CASE type = kSegment -> p + 1
    [] type = kTria -> ((p + 1) * (p + 2)) \div 2
    [] type = kQuad -> (p + 1) * (p + 1)

RECURSIVE SumOverCodims(_, _, _)
SumOverCodims(type, degree_, codim) ==
  IF codim < 0 THEN 0
  ELSE NumRefShapeFunctionsCodim(type, degree_, codim, 0).val
         * NumSubEntities(type, codim).val
       + SumOverCodims(type, degree_, codim - 1)

\* C8: for p >= 1 NumRefShapeFunctions(codim) is 1 on vertices, p-1 on edges
\* and p-1, max(0,(p-2)(p-1)/2), (p-1)^2 on the interior of a segment,
\* triangle, quadrilateral; these counts times the numbers of sub-entities
\* add up to NumRefShapeFunctions() = p+1, (p+1)(p+2)/2, (p+1)^2; the point
\* has exactly one function.
C8_CountsAddUp ==
  /\ (fe.live /\ fcall.op = "NumRefShapeFunctions") =>
       /\ out.val = ClaimedTotal(fe.type, fe.degree_)
       /\ out.val = SumOverCodims(fe.type, fe.degree_, Dimension(fe.type))
  /\ (fe.live /\ fcall.op = "NumRefShapeFunctionsCodim" /\ fe.type # kPoint
        /\ fcall.codim <= Dimension(fe.type)) =>
       /\ out.ok
       /\ out.val = ClaimedCount(fe.type, fe.degree_, fcall.codim)
  /\ (fe.live /\ fcall.op = "NumRefShapeFunctionsCodim" /\ fe.type = kPoint
        /\ fcall.codim = 0 /\ fcall.subidx = 0) =>
       /\ out.ok
       /\ out.val = 1

W8_CubicTriangleTotal ==
  /\ fe.live
  /\ fe.type = kTria
  /\ fe.degree_ = 3
  /\ fcall.op = "NumRefShapeFunctions"
  /\ out.val = 10

\* C9: GradientsReferenceShapeFunctions of the point fails for every input and
\* returns no matrix; EvalReferenceShapeFunctions of the point returns one row
\* of n ones for n points, whatever the degree.
C9_PointBasis ==
  /\ (fe.live /\ fe.type = kPoint /\ fcall.op = "GradientsReferenceShapeFunctions") =>
       /\ ~out.ok
       /\ out.mat = NoOut.mat
  /\ (fe.live /\ fe.type = kPoint /\ fcall.op = "EvalReferenceShapeFunctions"
        /\ fcall.refcoords.nrows = 0) =>
       /\ out.ok
       /\ out.mat.rows = << [c \in 1 .. Len(fcall.refcoords.pts) |-> R(1)] >>

W9_PointGradientFails ==
  /\ fe.live
  /\ fe.type = kPoint
  /\ fe.degree_ = 2
  /\ fcall.op = "GradientsReferenceShapeFunctions"
  /\ Len(fcall.refcoords.pts) = 2
  /\ ~out.ok

\* The orientation array with every edge positive.
AllPositive(type) == [e \in 1 .. NumOrientations(type) |-> positive]

\* C10: for a segment, triangle or quadrilateral of any degree p >= 1 and any
\* orientation, rows 0..NumVertices-1 of EvalReferenceShapeFunctions are the
\* rows of the degree-1 instance at the same points, hence the same for all
\* degrees and orientations.
C10_VertexHierarchy ==
  \A type \in {kSegment, kTria, kQuad} :
    Evaluated(type) =>
      LET lowest == EvalReferenceShapeFunctions(type, 1, AllPositive(type),
                                                fcall.refcoords).mat
      IN \A v \in 0 .. NumNodes(type) - 1 : Row(out.mat, v) = Row(lowest, v)

W10_CubicTriangleVertexRows ==
  /\ Evaluated(kTria)
  /\ fe.degree_ = 3
  /\ store.data = <<negative, positive, negative>>
  /\ Len(fcall.refcoords.pts) = 2
  /\ Row(out.mat, 2) = <<Frac(1, 4), Frac(1, 2)>>

\* The unit vector with n entries whose entry k (counted from 0) is 1.
UnitVector(n, k) == [j \in 1 .. n |-> IF j = k + 1 THEN 1 ELSE 0]

\* C7: for a segment, triangle or quadrilateral of any degree p >= 1 and any
\* orientation, NodalValuesToDofs applied to row k of
\* EvalReferenceShapeFunctions(EvaluationNodes()) returns unit vector k: the
\* matrix of the shape functions at the evaluation nodes is regular.
C7_RoundTrip ==
  (fe.live /\ fcall.op = "NodalValuesToDofs") =>
    out.dofs = Solution(UnitVector(NumRefShapeFunctions(fe.type, fe.degree_), fcall.k))

W7_CubicTriangleInteriorRow ==
  /\ fe.live
  /\ fe.type = kTria
  /\ fe.degree_ = 3
  /\ store.data = <<positive, negative, negative>>
  /\ fcall.op = "NodalValuesToDofs"
  /\ fcall.k = 9
  /\ out.dofs = Solution(UnitVector(10, 9))

(***************************************************************************)
(* The rows of the functions of a sub-entity, by mode.                     *)
(***************************************************************************)

\* The row of the interior function (i, j) of a triangle of degree p: the
\* rows from 3p on in the order of the nested loops, i outer and j inner.
TriaInteriorRow(p, i, j) == 3 * p + i * (p - 2) - ((i * (i - 1)) \div 2) + j

\* The row of the interior function of a quadrilateral of degree p with
\* y-mode i and x-mode j.
QuadInteriorRow(p, i, j) == 4 * p + (p - 1) * i + j

\* The pairs of rows (row at degree p, row at degree q) of the functions that
\* the bases of degree p and of degree q >= p of one orientation share.
SharedRows(type, p, q, rel_orient) ==
  LET vertices == {<<v, v>> : v \in 0 .. NumNodes(type) - 1}
      edges == {<<EdgeRow(type, p, e, rel_orient[e + 1], i),
                  EdgeRow(type, q, e, rel_orient[e + 1], i)>> :
                  e \in 0 .. NumOrientations(type) - 1, i \in 0 .. p - 2}
      triaInterior == UNION {{<<TriaInteriorRow(p, i, j), TriaInteriorRow(q, i, j)>> :
                                j \in 0 .. p - i - 3} : i \in 0 .. p - 3}
      quadInterior == {<<QuadInteriorRow(p, i, j), QuadInteriorRow(q, i, j)>> :
                         i \in 0 .. p - 2, j \in 0 .. p - 2}
  IN CASE type = kSegment -> {<<k, k>> : k \in 0 .. p}
       [] type = kTria -> vertices \cup edges \cup triaInterior
       [] type = kQuad -> vertices \cup edges \cup quadInterior

\* C11: for a segment, triangle or quadrilateral with a fixed orientation
\* vector, every function of the basis of degree p (identified by its
\* sub-entity and mode) is a function of the basis of degree p + 1 with the
\* same values; on the segment row k of degree p is row k of degree p + 1.
C11_Hierarchical ==
  \A type \in {kSegment, kTria, kQuad} :
    Evaluated(type) =>
      LET p == fe.degree_
          higher == EvalReferenceShapeFunctions(type, p + 1, store.data,
                                                fcall.refcoords).mat
          shared == SharedRows(type, p, p + 1, store.data)
      IN /\ Cardinality(shared) = NumRefShapeFunctions(type, p)
         /\ \A rows \in shared : Row(out.mat, rows[1]) = Row(higher, rows[2])

\* A cubic triangle whose interior function does not vanish at the sample
\* point and is the first of the three interior functions of degree 4.
W11_CubicTriangleInterior ==
  /\ Evaluated(kTria)
  /\ fe.degree_ = 3
  /\ store.data = <<positive, negative, positive>>
  /\ Len(fcall.refcoords.pts) >= 1
  /\ fcall.refcoords.pts[1] = <<Frac(1, 4), Frac(1, 4)>>
  /\ ~RIsZero(Row(out.mat, 9)[1])
  /\ <<9, 12>> \in SharedRows(kTria, 3, 4, store.data)

\* The reference coordinates of vertex k.
VertexCoords(type, k) ==
  CASE type = kSegment -> << <<R(0)>>, <<R(1)>> >>[k + 1]
    [] type = kTria -> << <<R(0), R(0)>>, <<R(1), R(0)>>, <<R(0), R(1)>> >>[k + 1]
    [] type = kQuad -> << <<R(0), R(0)>>, <<R(1), R(0)>>,
                          <<R(1), R(1)>>, <<R(0), R(1)>> >>[k + 1]

\* C12: for a segment, triangle or quadrilateral of any degree p >= 1 and any
\* orientation, at the reference coordinates of vertex k the vertex function
\* k is 1 and every other function (vertex, edge or interior) is 0.
C12_KroneckerAtVertices ==
  \A type \in {kSegment, kTria, kQuad} :
    Evaluated(type) =>
      \A c \in DOMAIN fcall.refcoords.pts, k \in 0 .. NumNodes(type) - 1 :
        fcall.refcoords.pts[c] = VertexCoords(type, k) =>
          \A r \in 0 .. NumRefShapeFunctions(type, fe.degree_) - 1 :
            Row(out.mat, r)[c] = (IF r = k THEN R(1) ELSE R(0))

\* A cubic quadrilateral evaluated at the vertices (1,0) and (0,1).
W12_CubicQuadAtVertex ==
  /\ Evaluated(kQuad)
  /\ fe.degree_ = 3
  /\ store.data = <<negative, positive, negative, positive>>
  /\ fcall.refcoords.pts = <<VertexCoords(kQuad, 1), VertexCoords(kQuad, 3)>>
  /\ Row(out.mat, 1) = <<R(1), R(0)>>
  /\ Row(out.mat, 15) = <<R(0), R(0)>>

\* The sum of rows 0 .. n - 1 of mat in column c.
RECURSIVE SumOfRows(_, _, _)
SumOfRows(mat, n, c) ==
  IF n = 0 THEN R(0) ELSE RAdd(SumOfRows(mat, n - 1, c), Row(mat, n - 1)[c])

\* C13: the triangle basis of degree 1 has exactly the three rows 1-x-y, x
\* and y for every orientation vector; the vertex functions of a segment,
\* triangle or quadrilateral of any degree sum to 1 at every sample point.
C13_PartitionOfUnity ==
  /\ (Evaluated(kTria) /\ fe.degree_ = 1) =>
       /\ Len(out.mat.rows) = 3
       /\ \A c \in DOMAIN fcall.refcoords.pts :
            LET x == fcall.refcoords.pts[c][1]
                y == fcall.refcoords.pts[c][2]
            IN /\ Row(out.mat, 0)[c] = RSub(RSub(R(1), x), y)
               /\ Row(out.mat, 1)[c] = x
               /\ Row(out.mat, 2)[c] = y
  /\ \A type \in {kSegment, kTria, kQuad} :
       Evaluated(type) =>
         \A c \in DOMAIN fcall.refcoords.pts :
           SumOfRows(out.mat, NumNodes(type), c) = R(1)

\* A linear triangle with mixed orientations at an interior point and its
\* mirror image.
W13_LinearTriangle ==
  /\ Evaluated(kTria)
  /\ fe.degree_ = 1
  /\ store.data = <<negative, positive, negative>>
  /\ fcall.refcoords.pts = << <<Frac(1, 4), Frac(1, 2)>>, <<Frac(1, 2), Frac(1, 4)>> >>
  /\ out.mat.rows = << <<Frac(1, 4), Frac(1, 4)>>,
                       <<Frac(1, 4), Frac(1, 2)>>,
                       <<Frac(1, 2), Frac(1, 4)>> >>

\* The member function op of an instance of the given type has returned a matrix.
Returned(type, op) ==
  /\ fe.live
  /\ fe.type = type
  /\ fcall.op = op
  /\ out.ok

\* The six normalised ratios: the pair sum, the ratio and its derivatives as
\* the gradient routine computes them (g), and the ratio as the value routine
\* computes it (b).
SixRatios(b, g) ==
  { [sum |-> g.l1p2, value |-> b.l121n, ratio |-> g.l121n,
     dx |-> g.l121n_dx, dy |-> g.l121n_dy],
    [sum |-> g.l1p2, value |-> b.l122n, ratio |-> g.l122n,
     dx |-> g.l122n_dx, dy |-> g.l122n_dy],
    [sum |-> g.l2p3, value |-> b.l232n, ratio |-> g.l232n,
     dx |-> g.l232n_dx, dy |-> g.l232n_dy],
    [sum |-> g.l2p3, value |-> b.l233n, ratio |-> g.l233n,
     dx |-> g.l233n_dx, dy |-> g.l233n_dy],
    [sum |-> g.l3p1, value |-> b.l313n, ratio |-> g.l313n,
     dx |-> g.l313n_dx, dy |-> g.l313n_dy],
    [sum |-> g.l3p1, value |-> b.l311n, ratio |-> g.l311n,
     dx |-> g.l311n_dx, dy |-> g.l311n_dy] }

\* No entry of the matrix is the result of a division by zero.
Determinate(mat) ==
  \A r \in DOMAIN mat.rows : \A c \in DOMAIN mat.rows[r] :
    mat.rows[r][c] # Indeterminate

EachRowOnce(mat, n) ==
  /\ ~mat.oob
  /\ Len(mat.rows) = n
  /\ Len(mat.log) = n
  /\ \A r \in 0 .. n - 1 : \E k \in DOMAIN mat.log : mat.log[k] = r

\* The rows assigned by assignments first .. last (counted from 0).
Assigned(mat, first, last) == {mat.log[k + 1] : k \in first .. last}

\* C15: for a triangle of any degree p >= 1 and any orientation vector,
\* EvalReferenceShapeFunctions assigns each of the rows 0 .. (p+1)(p+2)/2 - 1
\* exactly once and no other row; rows 0..2 are l1, l2, l3; the p - 1
\* functions of edge e fill the rows 3 + e(p-1) .. 2 + (e+1)(p-1); the
\* interior functions are assigned to the rows 3p, 3p + 1, ... in the order
\* i = 0..p-3 (outer), j = 0..p-i-3 (inner), and function (i, j) is mode i
\* of edge 1 times the integrated Jacobi polynomial of degree j + 1 with
\* alpha = 2i + 4 at l1.
C15_TriaLayout ==
  Evaluated(kTria) =>
    LET p == fe.degree_
        n == ((p + 1) * (p + 2)) \div 2
        pts == fcall.refcoords.pts
    IN /\ EachRowOnce(out.mat, n)
       /\ \A c \in DOMAIN pts :
            /\ Row(out.mat, 0)[c] = RSub(RSub(R(1), pts[c][1]), pts[c][2])
            /\ Row(out.mat, 1)[c] = pts[c][1]
            /\ Row(out.mat, 2)[c] = pts[c][2]
       /\ \A e \in 0 .. 2 :
            /\ Assigned(out.mat, 3 + e * (p - 1), 2 + (e + 1) * (p - 1))
                 = 3 + e * (p - 1) .. 2 + (e + 1) * (p - 1)
            /\ \A i \in 0 .. p - 2 :
                 /\ TriaEdgeRow(p, e, store.data[e + 1], i)
                      \in 3 + e * (p - 1) .. 2 + (e + 1) * (p - 1)
                 /\ \A c \in DOMAIN pts :
                      Row(out.mat, TriaEdgeRow(p, e, store.data[e + 1], i))[c]
                        = TriaEdgeValue(e, store.data[e + 1], i, pts[c])
       /\ \A k \in 3 * p .. n - 1 : out.mat.log[k + 1] = k
       /\ \A i \in 0 .. p - 3 : \A j \in 0 .. p - i - 3 :
            /\ TriaInteriorRow(p, i, j) \in 3 * p .. n - 1
            /\ \A c \in DOMAIN pts :
                 Row(out.mat, TriaInteriorRow(p, i, j))[c]
                   = RMul(Row(out.mat, TriaEdgeRow(p, 1, store.data[2], i))[c],
                          JacobiIntegral(j + 1, 2 * i + 4,
                                         RSub(RSub(R(1), pts[c][1]), pts[c][2])))

\* A triangle of degree 4 with the second edge reversed: the three interior
\* functions (0,0), (0,1), (1,0) are the last three assignments, and the
\* function (1,0) does not vanish at the sample point.
W15_QuarticTriangleInterior ==
  /\ Evaluated(kTria)
  /\ fe.degree_ = 4
  /\ store.data = <<positive, negative, positive>>
  /\ Len(fcall.refcoords.pts) >= 1
  /\ fcall.refcoords.pts[1] = <<Frac(1, 4), Frac(1, 2)>>
  /\ SubSeq(out.mat.log, 13, 15) = <<12, 13, 14>>
  /\ TriaInteriorRow(4, 1, 0) = 14
  /\ ~RIsZero(Row(out.mat, 14)[1])

\* The 1D shape function k of the segment at x: the two vertex functions,
\* then the interior modes k - 2.
Shape1d(k, x) ==
  CASE k = 0 -> RSub(R(1), x)
    [] k = 1 -> x
    [] OTHER -> LegendreIntegral(k, x)

\* The value at pt of mode i of edge e of the quadrilateral, the edge running
\* in its own direction for a positive and against it for a negative
\* orientation.
QuadEdgeValue(e, orient, i, pt) ==
  LET x == pt[1]
      y == pt[2]
      fx == RSub(R(1), pt[1])
      fy == RSub(R(1), pt[2])
  IN CASE e = 0 -> RMul(Shape1d(2 + i, IF orient = positive THEN x ELSE fx),
                        Shape1d(0, y))
       [] e = 1 -> RMul(Shape1d(1, x),
                        Shape1d(2 + i, IF orient = positive THEN y ELSE fy))
       [] e = 2 -> RMul(Shape1d(2 + i, IF orient = positive THEN fx ELSE x),
                        Shape1d(1, y))
       [] e = 3 -> RMul(Shape1d(0, x),
                        Shape1d(2 + i, IF orient = positive THEN fy ELSE y))

\* C16: for a quadrilateral of any degree p >= 1 and any orientation vector,
\* EvalReferenceShapeFunctions assigns each of the rows 0 .. (p+1)^2 - 1
\* exactly once and no other row; rows 0..3 are the products of the 1D vertex
\* functions for the corners (0,0), (1,0), (1,1), (0,1); the p - 1 functions
\* of edge e fill the rows 4 + e(p-1) .. 3 + (e+1)(p-1); the interior
\* function with y-mode i and x-mode j is in row 4p + (p-1) i + j and is the
\* product of the 1D interior mode j in x and the 1D interior mode i in y.
C16_QuadLayout ==
  Evaluated(kQuad) =>
    LET p == fe.degree_
        n == (p + 1) * (p + 1)
        pts == fcall.refcoords.pts
    IN /\ EachRowOnce(out.mat, n)
       /\ \A c \in DOMAIN pts :
            /\ Row(out.mat, 0)[c] = RMul(Shape1d(0, pts[c][1]), Shape1d(0, pts[c][2]))
            /\ Row(out.mat, 1)[c] = RMul(Shape1d(1, pts[c][1]), Shape1d(0, pts[c][2]))
            /\ Row(out.mat, 2)[c] = RMul(Shape1d(1, pts[c][1]), Shape1d(1, pts[c][2]))
            /\ Row(out.mat, 3)[c] = RMul(Shape1d(0, pts[c][1]), Shape1d(1, pts[c][2]))
       /\ \A e \in 0 .. 3 :
            /\ Assigned(out.mat, 4 + e * (p - 1), 3 + (e + 1) * (p - 1))
                 = 4 + e * (p - 1) .. 3 + (e + 1) * (p - 1)
            /\ \A i \in 0 .. p - 2 :
                 /\ QuadEdgeRow(p, e, store.data[e + 1], i)
                      \in 4 + e * (p - 1) .. 3 + (e + 1) * (p - 1)
                 /\ \A c \in DOMAIN pts :
                      Row(out.mat, QuadEdgeRow(p, e, store.data[e + 1], i))[c]
                        = QuadEdgeValue(e, store.data[e + 1], i, pts[c])
       /\ \A i \in 0 .. p - 2 : \A j \in 0 .. p - 2 :
            \A c \in DOMAIN pts :
              Row(out.mat, 4 * p + (p - 1) * i + j)[c]
                = RMul(Shape1d(j + 2, pts[c][1]), Shape1d(i + 2, pts[c][2]))

\* A cubic quadrilateral at the point (1/2, 1/4): the interior function with
\* y-mode 1 and x-mode 0 (row 14) does not vanish, the one with y-mode 0 and
\* x-mode 1 (row 13) does.
W16_CubicQuadInterior ==
  /\ Evaluated(kQuad)
  /\ fe.degree_ = 3
  /\ store.data = <<positive, negative, negative, positive>>
  /\ Len(fcall.refcoords.pts) >= 1
  /\ fcall.refcoords.pts[1] = <<Frac(1, 2), Frac(1, 4)>>
  /\ ~RIsZero(Row(out.mat, 14)[1])
  /\ RIsZero(Row(out.mat, 13)[1])

(***************************************************************************)
(* Claims about the evaluation nodes, checked under SpecLayout.            *)
(***************************************************************************)
RLess(a, b) == a[1] * b[2] < b[1] * a[2]

\* The point at parameter t of edge e, which runs from its first to its
\* second vertex.
EdgePoint(type, e, t) ==
  LET from == VertexCoords(type, DocumentedEdgeVertex(type, e, 0))
      to == VertexCoords(type, DocumentedEdgeVertex(type, e, 1))
  IN [d \in 1 .. 2 |-> RAdd(from[d], RMul(t, RSub(to[d], from[d])))]

\* pt lies in the interior of the reference element.
StrictlyInside(type, pt) ==
  CASE type = kSegment -> RLess(R(0), pt[1]) /\ RLess(pt[1], R(1))
    [] type = kTria -> /\ RLess(R(0), pt[1])
                       /\ RLess(R(0), pt[2])
                       /\ RLess(RAdd(pt[1], pt[2]), R(1))
    [] type = kQuad -> /\ RLess(R(0), pt[1]) /\ RLess(pt[1], R(1))
                       /\ RLess(R(0), pt[2]) /\ RLess(pt[2], R(1))

\* The node in column k (counted from 0).
Node(nodes, k) == nodes.cols[k + 1]

\* C17: for a segment, triangle or quadrilateral of any degree p >= 1 the
\* constructor assigns every column 0 .. NumEvaluationNodes() - 1 of the node
\* matrix exactly once and no other column; NumEvaluationNodes() equals
\* NumRefShapeFunctions(); the node of column k lies on the sub-entity whose
\* block of rows contains row k (vertex k, the open edge e, the interior);
\* the p - 1 nodes of an edge run from the first to the second vertex of the
\* edge; the interior nodes of the triangle are (cheb[j], cheb[i]) in the
\* nested order of the interior functions (i outer, j inner, i + j <= p - 3).
C17_NodeLayout ==
  \A type \in {kSegment, kTria, kQuad} :
    (fe.live /\ fe.type = type) =>
      LET p == fe.degree_
          n == NumEvaluationNodes(type, p)
          nodes == fe.eval_nodes_
          cheb == chebyshevNodes(p - 1)
          nv == NumNodes(type)
          first == nv + NumOrientations(type) * (p - 1)
      IN /\ n = NumRefShapeFunctions(type, p)
         /\ ~nodes.oob
         /\ Len(nodes.cols) = n
         /\ Len(nodes.log) = n
         /\ \A k \in 0 .. n - 1 : \E w \in DOMAIN nodes.log : nodes.log[w] = k
         /\ \A v \in 0 .. nv - 1 : Node(nodes, v) = VertexCoords(type, v)
         /\ \A i \in 1 .. p - 2 : RLess(cheb[i], cheb[i + 1])
         /\ \A i \in 1 .. p - 1 : RLess(R(0), cheb[i]) /\ RLess(cheb[i], R(1))
         /\ type = kSegment =>
              \A i \in 0 .. p - 2 : Node(nodes, 2 + i) = <<cheb[i + 1]>>
         /\ type # kSegment =>
              \A e \in 0 .. NumOrientations(type) - 1, i \in 0 .. p - 2 :
                Node(nodes, nv + e * (p - 1) + i) = EdgePoint(type, e, cheb[i + 1])
         /\ \A k \in first .. n - 1 : StrictlyInside(type, Node(nodes, k))
         /\ type = kTria =>
              /\ \A k \in 3 * p .. n - 1 : nodes.log[k + 1] = k
              /\ \A i \in 0 .. p - 3 : \A j \in 0 .. p - i - 3 :
                   Node(nodes, TriaInteriorRow(p, i, j)) = <<cheb[j + 1], cheb[i + 1]>>

\* The nodes of a triangle of degree 4: the second and the third interior
\* node are (cheb[1], cheb[0]) and (cheb[0], cheb[1]), and the second node of
\* the third edge lies halfway between vertex 2 and vertex 0.
W17_QuarticTriangleNodes ==
  /\ fe.live
  /\ fe.type = kTria
  /\ fe.degree_ = 4
  /\ fcall = NoFCall
  /\ Len(fe.eval_nodes_.cols) = 15
  /\ Node(fe.eval_nodes_, 10) = <<R(0), Frac(1, 2)>>
  /\ Node(fe.eval_nodes_, 13) = <<Frac(1, 2), Frac(1, 8)>>
  /\ Node(fe.eval_nodes_, 14) = <<Frac(1, 8), Frac(1, 2)>>

(***************************************************************************)
(* Claims about concurrent calls on one shape-function set, checked under  *)
(* SpecConc.                                                               *)
(***************************************************************************)

StencilStep(type) == IF type = kTria THEN Frac(1, 3) ELSE Frac(1, GridDen)

\* The sum of two rationals over their least common denominator.
RAddLcm(a, b) ==
  LET g == Gcd(a[2], b[2])
  IN Frac(a[1] * (b[2] \div g) + b[1] * (a[2] \div g), (a[2] \div g) * b[2])

\* The values of all shape functions at pt moved by k steps in direction d.
ShapeAt(type, degree_, rel_orient, pt, d, k) ==
  LET moved == [pt EXCEPT ![d] = RAdd(pt[d], RMul(R(k), StencilStep(type)))]
      mat == EvalReferenceShapeFunctions(type, degree_, rel_orient,
               [nrows |-> Dimension(type), pts |-> <<moved>>]).mat
  IN [r \in 1 .. Len(mat.rows) |-> mat.rows[r][1]]

\* The partial derivative in direction d of all shape functions at pt:
\* (f(-2h) - 8 f(-h) + 8 f(h) - f(2h)) / (12 h), which is the derivative of
\* every polynomial of degree 4 or less.
ExactDerivative(type, degree_, rel_orient, pt, d) ==
  LET m2 == ShapeAt(type, degree_, rel_orient, pt, d, -2)
      m1 == ShapeAt(type, degree_, rel_orient, pt, d, -1)
      p1 == ShapeAt(type, degree_, rel_orient, pt, d, 1)
      p2 == ShapeAt(type, degree_, rel_orient, pt, d, 2)
  IN [r \in DOMAIN m2 |->
        RDiv(RAddLcm(RAddLcm(m2[r], RMul(R(-8), m1[r])),
                     RAddLcm(RMul(R(8), p1[r]), RNeg(p2[r]))),
             RMul(R(12), StencilStep(type)))]

\* C19: for Segment, Triangle and Quad, every degree from 1 to 4 (the degrees
\* whose derivatives the stencil gives exactly), every orientation and every
\* sample point, each row of GradientsReferenceShapeFunctions holds the exact
\* partial derivatives of the same row of EvalReferenceShapeFunctions (entry
\* Dimension * c + d of a row is the derivative in direction d at point c);
\* on the segment bubble k has the value LegendrePoly::integral(k + 2) and
\* the gradient LegendrePoly::eval(k + 1).
C19_GradientConsistency ==
  \A type \in {kSegment, kTria, kQuad} :
    (/\ Returned(type, "GradientsReferenceShapeFunctions")
     /\ fe.degree_ <= 4
     /\ fcall.refcoords.nrows = Dimension(type)) =>
      /\ Len(out.mat.rows) = NumRefShapeFunctions(type, fe.degree_)
      /\ \A c \in DOMAIN fcall.refcoords.pts :
           /\ \A d \in 1 .. Dimension(type) :
                \A derivative \in {ExactDerivative(type, fe.degree_, store.data,
                                                   fcall.refcoords.pts[c], d)} :
                  \A r \in DOMAIN derivative :
                    out.mat.rows[r][Dimension(type) * (c - 1) + d] = derivative[r]
           /\ type = kSegment =>
                \A k \in 0 .. fe.degree_ - 2 :
                  /\ ShapeAt(type, fe.degree_, store.data,
                             fcall.refcoords.pts[c], 1, 0)[k + 3]
                       = LegendreIntegral(k + 2, fcall.refcoords.pts[c][1])
                  /\ out.mat.rows[k + 3][c]
                       = LegendreEval(k + 1, fcall.refcoords.pts[c][1])

\* The gradients of a quartic triangle with a negative second edge at
\* (1/4, 1/4): both derivatives of the interior function of modes j = 0 and
\* k = 1, whose factor is JacobiPoly::integral(2, 4, l1), are non-zero.
W19_QuarticTriangleGradient ==
  /\ Returned(kTria, "GradientsReferenceShapeFunctions")
  /\ fe.degree_ = 4
  /\ store.data[2] = negative
  /\ Len(fcall.refcoords.pts) >= 1
  /\ fcall.refcoords.pts[1] = <<Frac(1, 4), Frac(1, 4)>>
  /\ Len(out.mat.rows) = 15
  /\ ~RIsZero(Row(out.mat, 13)[1])
  /\ ~RIsZero(Row(out.mat, 13)[2])
  /\ Row(out.mat, 13)[1] = ExactDerivative(kTria, 4, store.data,
                                           fcall.refcoords.pts[1], 1)[14]

(***************************************************************************)
(* Claims about FeSpaceHierarchic, checked under SpecSpace.                *)
(***************************************************************************)

\* The number of interior shape functions of an entity of the given type in
\* a space of degree p, as the documentation counts them.
InteriorCount(type, p) ==
  CASE type = kPoint -> 1
    [] type = kSegment -> p - 1
    [] type = kTria -> IF p >= 2 THEN ((p - 2) * (p - 1)) \div 2 ELSE 0
    [] type = kQuad -> (p - 1) * (p - 1)

\* C20: FeSpaceHierarchic::NumRefShapeFunctions(entity) returns the number of
\* interior shape functions of the entity, the count NumRefShapeFunctions(0)
\* of the entity's layout: p - 1 for an edge, max(0, (p-2)(p-1)/2) for a
\* triangle, (p-1)^2 for a quadrilateral.
C20_InteriorCountOfEntity ==
  (space.live /\ scall.op = "NumRefShapeFunctions") =>
    /\ scall.val = InteriorCount(EntityRefEl(space.mesh, scall.entity), space.degree_)
    /\ scall.val = NumRefShapeFunctionsCodim(space.ref_el_[scall.entity].type,
                                             space.ref_el_[scall.entity].degree_,
                                             0, 0).val

(***************************************************************************)
(* Further claims about the reference-element topology (SpecTopo).         *)
(***************************************************************************)

\* The edges of which vertex v is endpoint k (0 = start, 1 = end), as
\* SubSubEntity2SubEntity reports them.
EdgesWithEndpoint(type, v, k) ==
  {e \in 0 .. NumSubEntities(type, 1).val - 1 :
     SubSubEntity2SubEntity(type, 1, e, 1, k) = Ok(v)}

\* C24: for all valid arguments the value SubSubEntity2SubEntity returns is a
\* local index of an entity of codimension sub_codim + sub_sub_codim, i.e.
\* lies in [0, NumSubEntities(sub_codim + sub_sub_codim)); and each vertex of
\* a Triangle or Quad starts exactly one edge and ends exactly one edge.
C24_ResultIsValidIndex ==
  (call.op = "SubSubEntity2SubEntity" /\ ValidSubSubArgs)
  => /\ ret.ok
     /\ ret.val \in 0 .. NumSubEntities(call.type,
                                        call.sub_codim + call.sub_sub_codim).val - 1
     /\ call.type \in {kTria, kQuad}
        => \A v \in 0 .. NumNodes(call.type) - 1, k \in {0, 1} :
             Cardinality(EdgesWithEndpoint(call.type, v, k)) = 1

(***************************************************************************)
(* Claims about LegendrePoly and JacobiPoly, checked under SpecPoly.       *)
(***************************************************************************)

\* The Legendre polynomial of degree j at t, by its three-term recurrence
\* L_0 = 1, L_1 = t, (j+1) L_{j+1} = (2j+1) t L_j - j L_{j-1}.
RECURSIVE Legendre(_, _)
Legendre(j, t) ==
  IF j = 0 THEN R(1)
  ELSE IF j = 1 THEN t
  ELSE RDiv(RSub(RMul(RMul(R(2 * j - 1), t), Legendre(j - 1, t)),
                 RMul(R(j - 1), Legendre(j - 2, t))),
            R(j))

\* A call of fn has reached its return statement.
PolyReturned(fn) == poly.pc = "done" /\ poly.fn = fn

\* C27: LegendrePoly::integral(0,x) = -1, integral(1,x) = x, and for n >= 2
\* integral(n,x) = (L_n - L_{n-2})/(4n-2) with L_j = LegendrePoly::eval(j,x),
\* the value of the recurrence L_{j+1} = ((2j+1) t L_j - j L_{j-1})/(j+1) from
\* L_0 = 1, L_1 = t at t = 2x-1; the loop of eval makes exactly n-1 steps, the
\* loop of integral exactly n-2, and each returns the value of degree n.
C27_LegendreRecurrence ==
  LET n == poly.n
      t == RSub(RMul(R(2), poly.x0), R(1))
  IN /\ PolyReturned("LegendrePoly::eval")
        => /\ poly.val = Legendre(n, t)
           /\ poly.val = LegendreEval(n, poly.x0)
           /\ n >= 2 => poly.steps = n - 1
           /\ n < 2 => poly.steps = 0
     /\ PolyReturned("LegendrePoly::integral")
        => /\ n = 0 => poly.val = R(-1)
           /\ n = 1 => poly.val = poly.x0
           /\ n >= 2 => /\ poly.val = RDiv(RSub(LegendreEval(n, poly.x0),
                                                LegendreEval(n - 2, poly.x0)),
                                           R(4 * n - 2))
                        /\ poly.val = RDiv(RSub(Legendre(n, t), Legendre(n - 2, t)),
                                           R(4 * n - 2))
                        /\ poly.steps = n - 2
           /\ n < 2 => poly.steps = 0
           /\ poly.val = LegendreIntegral(n, poly.x0)

\* integral(4, 1/3) = (L_4(-1/3) - L_2(-1/3)) / 14 = 2/81 after two steps.
W27_QuarticIntegral ==
  /\ PolyReturned("LegendrePoly::integral")
  /\ poly.n = 4
  /\ poly.x0 = Frac(1, 3)
  /\ poly.steps = 2
  /\ poly.val = Frac(2, 81)

\* No value of the call in progress is the result of a division by zero.
PolyDeterminate ==
  \A v \in {poly.vjm2, poly.vjm1, poly.vj, poly.val} : v # Indeterminate

\* C28: for every degree n >= 0 and parameter alpha >= 0 the four functions
\* leave their loop after at most n iterations and never divide by zero (the
\* divisors j+1, 4n-2, a_{j+1}, and the products of 2n+alpha-2, 2n+alpha-1,
\* 2n+alpha are non-zero wherever used); JacobiPoly::eval(0,.) = 1 and
\* JacobiPoly::eval(1,alpha,x) = (2+alpha) x - 1.
C28_PolynomialsTotal ==
  /\ poly.steps <= poly.n
  /\ poly.pc = "loop" => /\ poly.j <= poly.n
                         /\ poly.steps + (poly.n - poly.j) <= poly.n
  /\ 0 \notin poly.divisors
  /\ PolyDeterminate
  /\ PolyReturned("JacobiPoly::eval")
     => /\ poly.n = 0 => poly.val = R(1)
        /\ poly.n = 1 => poly.val = RSub(RMul(R(2 + poly.alpha), poly.x0), R(1))
        /\ poly.val = JacobiEval(poly.n, poly.alpha, poly.x0)
  /\ PolyReturned("JacobiPoly::integral")
     => poly.val = JacobiIntegral(poly.n, poly.alpha, poly.x0)

\* JacobiPoly::integral(3, 0, 1/3): alpha = 0 makes 2n + alpha - 2 and the last
\* factor of a_{j+1} smallest; the loop ran once, after the step before it.
W28_JacobiIntegralAlphaZero ==
  /\ PolyReturned("JacobiPoly::integral")
  /\ poly.n = 3
  /\ poly.alpha = 0
  /\ poly.x0 = Frac(1, 3)
  /\ poly.steps = 1
  /\ poly.divisors = {JacobiDivisor(1, 0), JacobiDivisor(2, 0)}
                       \cup JacobiIntegralDivisors(3, 0)
  /\ poly.val # R(0)

(***************************************************************************)
(* Claims about the construction of FeSpaceHierarchic (SpecSpace).         *)
(***************************************************************************)

\* The kinds of the entities of a mesh.
KindsOf(mesh) ==
  {EntityRefEl(mesh, entity) :
     entity \in Entities(mesh, 0) \cup Entities(mesh, 1) \cup Entities(mesh, 2)}

\* C21: construction with degree N >= 1 hands the dof handler, for every kind
\* that occurs in the mesh, the number of interior shape functions of that
\* kind: 1 for Point, N-1 for Segment, max(0,(N-2)(N-1)/2) for Triangle,
\* (N-1)^2 for Quad; the order of the visit and the orientation arrays of the
\* entities do not change the value (the meshes of the reachable states hold
\* the cells in every order and with differing orientation arrays).
C21_DofLayoutCounts ==
  space.live =>
    \A kind \in KindsOf(space.mesh) :
      space.dofh_p_.rsf_layout[kind] = InteriorCount(kind, space.degree_)

\* A space of degree 3 on a quadrilateral followed by a triangle, with a
\* negative first edge in the triangle: 1, 2, 1 and 4 interior functions.
W21_CubicMixedMesh ==
  /\ space.live
  /\ space.degree_ = 3
  /\ Len(space.mesh.cells) = 2
  /\ space.mesh.cells[1].type = kQuad
  /\ space.mesh.cells[2] = [type |-> kTria,
                            rel_orient |-> <<negative, positive, positive>>]
  /\ space.dofh_p_.rsf_layout = [type \in RefElTypes |->
                                   CASE type = kPoint -> 1
                                     [] type = kSegment -> 2
                                     [] type = kTria -> 1
                                     [] type = kQuad -> 4]

\* C29: after the construction on a mesh with degree N the layout of every
\* entity of codimension 0, 1 and 2 is non-null, has the entity's kind and the
\* degree N, the layout of an edge or cell carries that entity's own array of
\* relative orientations, and LocGlobMap() returns the dof handler without
\* failing; a cell that is neither triangle nor quadrilateral makes the
\* construction fail.
C29_LayoutOfEveryEntity ==
  /\ space.live =>
       /\ \A codim \in 0 .. 2 : \A entity \in Entities(space.mesh, codim) :
            LET layout == ShapeFunctionLayout(space.ref_el_, entity)
            IN /\ ~layout.null
               /\ layout.type = EntityRefEl(space.mesh, entity)
               /\ layout.degree_ = space.degree_
               /\ codim = 0 => layout.rel_orient_
                                 = space.mesh.cells[entity.index + 1].rel_orient
               /\ codim = 1 => layout.rel_orient_
                                 = space.mesh.edges[entity.index + 1]
       /\ scall.op = "ShapeFunctionLayout"
          => scall.layout = space.ref_el_[scall.entity]
       /\ scall.op = "LocGlobMap" => scall.err = ""
       /\ ~space.dofh_p_.null
       /\ \A entity \in Entities(space.mesh, 0) :
            EntityRefEl(space.mesh, entity) \in {kTria, kQuad}
  /\ scall.op = "FeSpaceHierarchic"
     => /\ ~space.live
        /\ scall.err = IllegalEntityType
        /\ \E entity \in Entities(scall.mesh, 0) :
             EntityRefEl(scall.mesh, entity) \notin {kTria, kQuad}

\* The layout of the second edge of a mesh whose two edges report different
\* orientations has been looked up.
W29_SecondEdgeLayout ==
  /\ space.live
  /\ space.degree_ = 2
  /\ space.mesh.edges = << <<positive>>, <<negative>> >>
  /\ scall.op = "ShapeFunctionLayout"
  /\ scall.entity = [codim |-> 1, index |-> 1]
  /\ scall.layout = [null |-> FALSE, type |-> kSegment, degree_ |-> 2,
                     rel_orient_ |-> <<negative>>]

(***************************************************************************)
(* Claims about the orientation array behind the span (SpecSpan).          *)
(***************************************************************************)

\* C30: a Segment, Triangle or Quad shape-function set is a value fixed at
\* construction: what EvalReferenceShapeFunctions and
\* GradientsReferenceShapeFunctions return depends on the degree and on the
\* orientation values handed to the constructor only, also after the caller
\* has modified or released the array that held them.
C30_ValueFixedAtConstruction ==
  (fe.live /\ fe.type \in {kSegment, kTria, kQuad})
  => /\ fcall.op = "EvalReferenceShapeFunctions"
        => out \in MatOutcomes(EvalReferenceShapeFunctions(
                                 fe.type, fe.degree_, store.passed, fcall.refcoords))
     /\ fcall.op = "GradientsReferenceShapeFunctions"
        => out \in MatOutcomes(GradientsReferenceShapeFunctions(
                                 fe.type, fe.degree_, store.passed, fcall.refcoords))

(***************************************************************************)
(* Claims about shape-function sets of degree 0 (SpecZero).                *)
(***************************************************************************)

\* C22: for degree p = 0 the construction and the evaluation of a Segment,
\* Triangle or Quad basis assign no row of the result and no column of the
\* node matrix outside [0, NumRefShapeFunctions()), every loop over edge or
\* interior modes makes zero passes, and NumRefShapeFunctions(codim) is at
\* most NumRefShapeFunctions() for every codim (unsigned 32-bit arithmetic).
C22_DegreeZeroInRange ==
  /\ fcall.op # "constructor"
  /\ (fe.live /\ fe.degree_ = 0 /\ fe.type \in {kSegment, kTria, kQuad})
     => /\ ~fe.eval_nodes_.oob
        /\ \A k \in DOMAIN fe.eval_nodes_.log :
             fe.eval_nodes_.log[k] \in 0 .. NumRefShapeFunctions(fe.type, 0) - 1
        /\ fcall.op \in {"EvalReferenceShapeFunctions",
                         "GradientsReferenceShapeFunctions"}
           => /\ out.ok
              /\ ~out.mat.oob
              /\ \A k \in DOMAIN out.mat.log :
                   out.mat.log[k] \in 0 .. NumRefShapeFunctions(fe.type, 0) - 1
        /\ ~ModeLoopEntered(fe.degree_)
        /\ (fcall.op = "NumRefShapeFunctionsCodim" /\ out.ok)
           => ~ULess(NumRefShapeFunctions(fe.type, 0), out.val)

(***************************************************************************)
(* The rows and columns of the gradient matrix, checked under SpecGrad.    *)
(***************************************************************************)

\* The place (from 1) of the assignment to row r in the log of mat; 0 if the
\* row has not been assigned.
AssignedAt(mat, r) ==
  IF \E k \in DOMAIN mat.log : mat.log[k] = r
    THEN CHOOSE k \in DOMAIN mat.log : mat.log[k] = r
    ELSE 0

\* The gradient matrix of the single point pt.
GradientAtPoint(type, degree_, rel_orient, pt) ==
  GradientsReferenceShapeFunctions(type, degree_, rel_orient,
    [nrows |-> Dimension(type), pts |-> <<pt>>]).mat

\* C23: for Segment, Triangle and Quad of every degree p >= 1 and every
\* orientation vector, GradientsReferenceShapeFunctions assigns each of the
\* rows 0 .. NumRefShapeFunctions() - 1 exactly once and no other row, in
\* the order in which EvalReferenceShapeFunctions assigns them, so the
\* derivative of a vertex function, of mode i of edge e and of an interior
\* function lies in the row of that function; for the point in column c
\* (from 0) of the coordinates the derivatives in x and y are in the columns
\* 2c and 2c + 1 (column c on the segment); and the triangle's interior
\* gradient reads the gradient row of mode i of edge 1, which has been
\* assigned before.
C23_GradientRowsMatchValues ==
  \A type \in {kSegment, kTria, kQuad} :
    (/\ Returned(type, "GradientsReferenceShapeFunctions")
     /\ fe.degree_ >= 1
     /\ fcall.refcoords.nrows = Dimension(type)
     /\ Len(fcall.refcoords.pts) > 0) =>
      LET p == fe.degree_
          n == NumRefShapeFunctions(type, p)
          dim == Dimension(type)
          pts == fcall.refcoords.pts
          values == EvalReferenceShapeFunctions(type, p, store.data,
                                                fcall.refcoords).mat
      IN /\ EachRowOnce(out.mat, n)
         /\ out.mat.log = values.log
         /\ \A r \in 1 .. n : Len(out.mat.rows[r]) = dim * Len(pts)
         /\ \A c \in DOMAIN pts :
              /\ \A single \in {GradientAtPoint(type, p, store.data, pts[c])} :
                   \A r \in 1 .. n : \A d \in 1 .. dim :
                     /\ out.mat.rows[r][dim * (c - 1) + d] = single.rows[r][d]
                     /\ out.mat.rows[r][dim * (c - 1) + d] # Indeterminate
              /\ type = kSegment =>
                   /\ Row(out.mat, 0)[c] = R(-1)
                   /\ Row(out.mat, 1)[c] = R(1)
              /\ type = kTria =>
                   /\ Row(out.mat, 0)[2 * c - 1] = R(-1)
                   /\ Row(out.mat, 0)[2 * c] = R(-1)
                   /\ Row(out.mat, 1)[2 * c - 1] = R(1)
                   /\ Row(out.mat, 1)[2 * c] = R(0)
                   /\ Row(out.mat, 2)[2 * c - 1] = R(0)
                   /\ Row(out.mat, 2)[2 * c] = R(1)
              /\ type = kQuad =>
                   /\ Row(out.mat, 1)[2 * c - 1] = RSub(R(1), pts[c][2])
                   /\ Row(out.mat, 1)[2 * c] = RNeg(pts[c][1])
                   /\ Row(out.mat, 3)[2 * c - 1] = RNeg(pts[c][2])
                   /\ Row(out.mat, 3)[2 * c] = RSub(R(1), pts[c][1])
         /\ type \in {kTria, kQuad} =>
              \A e \in 0 .. Len(store.data) - 1 : \A i \in 0 .. p - 2 :
                AssignedAt(out.mat, EdgeRow(type, p, e, store.data[e + 1], i))
                  = NumNodes(type) + e * (p - 1) + i + 1
         /\ type = kTria =>
              \A i \in 0 .. p - 3 : \A j \in 0 .. p - i - 3 :
                /\ AssignedAt(out.mat, TriaEdgeRow(p, 1, store.data[2], i)) > 0
                /\ AssignedAt(out.mat, TriaEdgeRow(p, 1, store.data[2], i))
                     < AssignedAt(out.mat, TriaInteriorRow(p, i, j))
                /\ (IF store.data[2] = positive THEN 2 + p + i ELSE 2 * p - i)
                     = TriaEdgeRow(p, 1, store.data[2], i)

\* The gradients of a quartic triangle with a negative second edge at two
\* points: the interior row 13 is assigned after row 7, which holds mode 1
\* of the reversed second edge, and its entries for the second point are in
\* the columns 2 and 3 (from 0).
W23_QuarticTriangleTwoPoints ==
  /\ Returned(kTria, "GradientsReferenceShapeFunctions")
  /\ fe.degree_ = 4
  /\ store.data = <<positive, negative, positive>>
  /\ Len(fcall.refcoords.pts) = 2
  /\ fcall.refcoords.pts[1] # fcall.refcoords.pts[2]
  /\ Len(out.mat.rows) = 15
  /\ TriaEdgeRow(4, 1, negative, 1) = 7
  /\ AssignedAt(out.mat, 7) < AssignedAt(out.mat, 14)
  /\ Row(out.mat, 14)[3] = GradientAtPoint(kTria, 4, store.data,
                                            fcall.refcoords.pts[2]).rows[15][1]
  /\ Row(out.mat, 14)[3] # Row(out.mat, 14)[1]

(***************************************************************************)
(* The rows of a reversed edge, checked under SpecLayout.                  *)
(***************************************************************************)

\* The first row of the block of edge e.
FirstRowOfEdge(type, p, e) == NumNodes(type) + e * (p - 1)

\* The place of mode i within the block of an edge of orientation orient.
PlaceInBlock(p, orient, i) == IF orient = positive THEN i ELSE (p - 2) - i

EdgeValue(type, e, orient, i, pt) ==
  IF type = kTria THEN TriaEdgeValue(e, orient, i, pt)
  ELSE QuadEdgeValue(e, orient, i, pt)

Reversed(orient) == IF orient = positive THEN negative ELSE positive

\* C25: in the block of rows of an edge e of a triangle or quadrilateral,
\* a positive edge stores mode i in row first_e + i and a negative edge in
\* the mirrored row first_e + (p - 2) - i, for every i in 0 .. p - 2; with
\* either orientation the p - 1 assignments of the edge go to exactly the
\* rows of its block, and the instance with the edge reversed assigns mode
\* i to the mirror image of the row; the interior functions of the triangle
\* are products with the row that holds mode i of edge 1 under the
\* orientation of edge 1.
C25_NegativeEdgeMirrorsRows ==
  \A type \in {kTria, kQuad} :
    (Evaluated(type) /\ fe.degree_ >= 2) =>
      LET p == fe.degree_
          pts == fcall.refcoords.pts
      IN /\ \A e \in 0 .. Len(store.data) - 1 :
              LET first == FirstRowOfEdge(type, p, e)
                  orient == store.data[e + 1]
                  reversed == EvalReferenceShapeFunctions(type, p,
                                [store.data EXCEPT ![e + 1] = Reversed(orient)],
                                fcall.refcoords).mat
              IN /\ Assigned(out.mat, first, first + p - 2) = first .. first + p - 2
                 /\ Assigned(reversed, first, first + p - 2) = first .. first + p - 2
                 /\ \A i \in 0 .. p - 2 :
                      /\ out.mat.log[first + i + 1]
                           = first + PlaceInBlock(p, orient, i)
                      /\ reversed.log[first + i + 1]
                           = first + (p - 2) - PlaceInBlock(p, orient, i)
                      /\ \A c \in DOMAIN pts :
                           /\ Row(out.mat, first + PlaceInBlock(p, orient, i))[c]
                                = EdgeValue(type, e, orient, i, pts[c])
                           /\ Row(reversed, first + (p - 2) - PlaceInBlock(p, orient, i))[c]
                                = EdgeValue(type, e, Reversed(orient), i, pts[c])
                 /\ \A r \in 0 .. Len(out.mat.rows) - 1 :
                      r \notin first .. first + p - 2 =>
                        \/ Row(reversed, r) = Row(out.mat, r)
                        \/ type = kTria /\ e = 1 /\ r >= 3 * p
         /\ type = kTria =>
              \A i \in 0 .. p - 3 : \A j \in 0 .. p - i - 3 :
                \A c \in DOMAIN pts :
                  Row(out.mat, TriaInteriorRow(p, i, j))[c]
                    = RMul(Row(out.mat, FirstRowOfEdge(kTria, p, 1)
                                          + PlaceInBlock(p, store.data[2], i))[c],
                           JacobiIntegral(j + 1, 2 * i + 4,
                                          RSub(RSub(R(1), pts[c][1]), pts[c][2])))

\* A quartic quadrilateral with a negative third edge at (1/4, 1/2): mode 0
\* of the third edge is the first assignment of the block and goes to its
\* last row 12, mode 2 to its first row 10, and the two rows differ.
W25_QuarticQuadReversedEdge ==
  /\ Evaluated(kQuad)
  /\ fe.degree_ = 4
  /\ store.data = <<positive, positive, negative, positive>>
  /\ Len(fcall.refcoords.pts) >= 1
  /\ fcall.refcoords.pts[1] = <<Frac(1, 4), Frac(1, 2)>>
  /\ SubSeq(out.mat.log, 11, 13) = <<12, 11, 10>>
  /\ Row(out.mat, 12)[1] = QuadEdgeValue(2, negative, 0, fcall.refcoords.pts[1])
  /\ ~RIsZero(Row(out.mat, 12)[1])
  /\ Row(out.mat, 12)[1] # Row(out.mat, 10)[1]

(***************************************************************************)
(* The functions of an edge and of the interior on the boundary of the     *)
(* cell, checked under SpecLayout.                                         *)
(***************************************************************************)

\* pt lies on edge e of the reference triangle (0,0), (1,0), (0,1) or of the
\* reference square (0,0), (1,0), (1,1), (0,1); edge e runs from vertex e to
\* the next vertex.
OnEdge(type, e, pt) ==
  IF type = kTria
    THEN CASE e = 0 -> RIsZero(pt[2])
           [] e = 1 -> RSub(RSub(R(1), pt[1]), pt[2]) = R(0)
           [] e = 2 -> RIsZero(pt[1])
    ELSE CASE e = 0 -> RIsZero(pt[2])
           [] e = 1 -> pt[1] = R(1)
           [] e = 2 -> pt[2] = R(1)
           [] e = 3 -> RIsZero(pt[1])

\* C26: for a triangle or quadrilateral of degree p >= 2 and every
\* orientation vector, every function in the block of rows of edge e is 0
\* at every point of every other edge, and every interior function (the
\* rows after the blocks of the edges) is 0 at every point of every edge;
\* the integrated Jacobi polynomial of degree n >= 1 with alpha = 2i + 4,
\* the factor of the triangle's interior functions, is 0 at 0.
C26_BubblesVanishOnBoundary ==
  /\ \A n \in 1 .. MaxLayoutDegree : \A i \in 0 .. MaxLayoutDegree :
       RIsZero(JacobiIntegral(n, 2 * i + 4, R(0)))
  /\ \A type \in {kTria, kQuad} :
       (Evaluated(type) /\ fe.degree_ >= 2) =>
         LET p == fe.degree_
             pts == fcall.refcoords.pts
             edges == 0 .. Len(store.data) - 1
             interior == FirstRowOfEdge(type, p, Len(store.data))
                           .. Len(out.mat.rows) - 1
         IN \A c \in DOMAIN pts : \A f \in edges :
              OnEdge(type, f, pts[c]) =>
                /\ \A e \in edges \ {f} :
                     \A r \in FirstRowOfEdge(type, p, e)
                                .. FirstRowOfEdge(type, p, e) + p - 2 :
                       Row(out.mat, r)[c] = R(0)
                /\ \A r \in interior : Row(out.mat, r)[c] = R(0)

\* A quartic triangle with a negative second edge at the point (1/4, 3/4)
\* of the second edge: mode 0 of the second edge (row 8) is not 0 there, the
\* three interior functions (rows 12, 13, 14) are.
W26_QuarticTriangleOnSecondEdge ==
  /\ Evaluated(kTria)
  /\ fe.degree_ = 4
  /\ store.data = <<positive, negative, positive>>
  /\ Len(fcall.refcoords.pts) >= 1
  /\ fcall.refcoords.pts[1] = <<Frac(1, 4), Frac(3, 4)>>
  /\ OnEdge(kTria, 1, fcall.refcoords.pts[1])
  /\ Len(out.mat.rows) = 15
  /\ ~RIsZero(Row(out.mat, 8)[1])
  /\ \A r \in 12 .. 14 : Row(out.mat, r)[1] = R(0)
  /\ \A r \in {3, 4, 5, 9, 10, 11} : Row(out.mat, r)[1] = R(0)

=========================================================================
